---- MODULE Spec2Model ----
(***************************************************************************)
(* Model of the LexiQ term-decision core:                                  *)
(*   - HotMatchService        (src/backend/hot_match_service.py)           *)
(*   - ConsistencyCheckService (src/lexiq_consistency_check_implementation *)
(*                              /backend/consistency_check_service.py)     *)
(*   - EnhancedLexiQEngine    (src/backend/enhanced_lexiq_engine.py)       *)
(*   - HotMatchDetector       (src/backend/hot_match_detector.py)          *)
(* Python strings are sequences of one-character strings, so that lower(), *)
(* strip(), split() and substring tests are computed, not assumed.         *)
(* Floats are fixed-point integers: percentages in 1/PctScale of a percent *)
(* point, confidences in hundredths (checker) or in 1/10000 (engine,       *)
(* detector).                                                              *)
(***************************************************************************)
EXTENDS Integers, Sequences, FiniteSets, TLC

VARIABLES
    supabase,     \* HotMatchService.supabase is set (a store client exists)
    cacheSvc,     \* HotMatchService.cache is set (a cache client exists)
    store,        \* the selection store: rows of hot_match_selections, in insertion order
    cache,        \* the percentage cache: key -> NoEntry or [value, expires]
    now,          \* wall clock, in seconds
    tasks,        \* concurrent record_user_selection coroutines: position and locals
    ret,          \* the call made by the last step and what it returned
    ccCache,      \* ConsistencyCheckService.cache: key -> [issues, statistics]
    nextId,       \* issue identifiers drawn so far by ConsistencyCheckService
    ccRet,        \* the last check_consistency call and how it ended
    glossary_df,  \* EnhancedLexiQEngine.glossary_df: the rows of the frame, in order
    suggestion_pool,  \* EnhancedLexiQEngine.suggestion_pool
    engRet,       \* the last EnhancedLexiQEngine call and how it ended
    fnCall,       \* the arguments of a call of a function that keeps no state
    fnRet,        \* what that call returned, once it has
    interchangeable_patterns,  \* HotMatchDetector.interchangeable_patterns
    detRet        \* the last HotMatchDetector call and what it returned

trackerVars == <<supabase, cacheSvc, store, cache, now, tasks, ret>>

checkerVars == <<ccCache, nextId, ccRet>>

engineVars == <<glossary_df, suggestion_pool, engRet>>

callVars == <<fnCall, fnRet>>

detectorVars == <<interchangeable_patterns, detRet>>

vars == <<trackerVars, checkerVars, engineVars, callVars, detectorVars>>

\* ConsistencyCheckService(): an empty cache
NewChecker ==
    /\ ccCache = <<>>
    /\ nextId = 0
    /\ ccRet = [op |-> "none"]

\* EnhancedLexiQEngine(): an empty frame and an empty pool
NewEngine ==
    /\ glossary_df = <<>>
    /\ suggestion_pool = <<>>
    /\ engRet = [op |-> "none"]

----------------------------------------------------------------------------
(* HotMatchDetector: the pattern tables it is constructed with *)

\* HotMatchDetector().interchangeable_patterns: the dict of the domains and
\* the dict of each domain, in insertion order
InitialPatterns ==
    <<
      [domain |-> <<"t","e","c","h","n","o","l","o","g","y">>,
       groups |-> <<
          [base_term |-> <<"i","m","p","l","e","m","e","n","t","a","t","i","o","n">>,
           alternatives |->
             << <<"d","e","p","l","o","y","m","e","n","t">>,
                <<"r","o","l","l","o","u","t">>,
                <<"i","n","t","e","g","r","a","t","i","o","n">>,
                <<"e","x","e","c","u","t","i","o","n">> >>],
          [base_term |-> <<"f","r","a","m","e","w","o","r","k">>,
           alternatives |->
             << <<"a","r","c","h","i","t","e","c","t","u","r","e">>,
                <<"s","t","r","u","c","t","u","r","e">>,
                <<"s","c","a","f","f","o","l","d">>,
                <<"p","l","a","t","f","o","r","m">> >>],
          [base_term |-> <<"v","a","l","i","d","a","t","i","o","n">>,
           alternatives |->
             << <<"v","e","r","i","f","i","c","a","t","i","o","n">>,
                <<"a","u","t","h","e","n","t","i","c","a","t","i","o","n">>,
                <<"c","e","r","t","i","f","i","c","a","t","i","o","n">>,
                <<"c","o","n","f","i","r","m","a","t","i","o","n">> >>],
          [base_term |-> <<"c","o","n","f","i","g","u","r","a","t","i","o","n">>,
           alternatives |->
             << <<"s","e","t","u","p">>,
                <<"s","e","t","t","i","n","g","s">>,
                <<"p","a","r","a","m","e","t","e","r","s">>,
                <<"o","p","t","i","o","n","s">> >>],
          [base_term |-> <<"o","p","t","i","m","i","z","a","t","i","o","n">>,
           alternatives |->
             << <<"e","n","h","a","n","c","e","m","e","n","t">>,
                <<"i","m","p","r","o","v","e","m","e","n","t">>,
                <<"r","e","f","i","n","e","m","e","n","t">>,
                <<"t","u","n","i","n","g">> >>],
          [base_term |-> <<"i","n","t","e","r","f","a","c","e">>,
           alternatives |->
             << <<"U","I">>,
                <<"u","s","e","r"," ","i","n","t","e","r","f","a","c","e">>,
                <<"f","r","o","n","t","e","n","d">>,
                <<"G","U","I">> >>],
          [base_term |-> <<"d","a","t","a","b","a","s","e">>,
           alternatives |->
             << <<"d","a","t","a"," ","s","t","o","r","e">>,
                <<"r","e","p","o","s","i","t","o","r","y">>,
                <<"s","t","o","r","a","g","e">>,
                <<"d","a","t","a","s","t","o","r","e">> >>],
          [base_term |-> <<"a","u","t","h","e","n","t","i","c","a","t","i","o","n">>,
           alternatives |->
             << <<"l","o","g","i","n">>,
                <<"s","i","g","n","-","i","n">>,
                <<"a","u","t","h","o","r","i","z","a","t","i","o","n">>,
                <<"a","c","c","e","s","s"," ","c","o","n","t","r","o","l">> >>],
          [base_term |-> <<"e","n","d","p","o","i","n","t">>,
           alternatives |->
             << <<"A","P","I">>,
                <<"s","e","r","v","i","c","e">>,
                <<"r","o","u","t","e">>,
                <<"r","e","s","o","u","r","c","e">> >>],
          [base_term |-> <<"m","o","d","u","l","e">>,
           alternatives |->
             << <<"c","o","m","p","o","n","e","n","t">>,
                <<"p","a","c","k","a","g","e">>,
                <<"l","i","b","r","a","r","y">>,
                <<"p","l","u","g","i","n">> >>] >>],
      [domain |-> <<"m","e","d","i","c","a","l">>,
       groups |-> <<
          [base_term |-> <<"t","r","e","a","t","m","e","n","t">>,
           alternatives |->
             << <<"t","h","e","r","a","p","y">>,
                <<"i","n","t","e","r","v","e","n","t","i","o","n">>,
                <<"m","a","n","a","g","e","m","e","n","t">>,
                <<"c","a","r","e">> >>],
          [base_term |-> <<"d","i","a","g","n","o","s","i","s">>,
           alternatives |->
             << <<"a","s","s","e","s","s","m","e","n","t">>,
                <<"e","v","a","l","u","a","t","i","o","n">>,
                <<"i","d","e","n","t","i","f","i","c","a","t","i","o","n">>,
                <<"e","x","a","m","i","n","a","t","i","o","n">> >>],
          [base_term |-> <<"m","e","d","i","c","a","t","i","o","n">>,
           alternatives |->
             << <<"d","r","u","g">>,
                <<"p","h","a","r","m","a","c","e","u","t","i","c","a","l">>,
                <<"m","e","d","i","c","i","n","e">>,
                <<"p","r","e","s","c","r","i","p","t","i","o","n">> >>],
          [base_term |-> <<"p","r","o","c","e","d","u","r","e">>,
           alternatives |->
             << <<"o","p","e","r","a","t","i","o","n">>,
                <<"s","u","r","g","e","r","y">>,
                <<"i","n","t","e","r","v","e","n","t","i","o","n">>,
                <<"t","e","c","h","n","i","q","u","e">> >>],
          [base_term |-> <<"s","y","m","p","t","o","m">>,
           alternatives |->
             << <<"s","i","g","n">>,
                <<"i","n","d","i","c","a","t","i","o","n">>,
                <<"m","a","n","i","f","e","s","t","a","t","i","o","n">>,
                <<"p","r","e","s","e","n","t","a","t","i","o","n">> >>],
          [base_term |-> <<"p","a","t","i","e","n","t">>,
           alternatives |->
             << <<"i","n","d","i","v","i","d","u","a","l">>,
                <<"s","u","b","j","e","c","t">>,
                <<"c","a","s","e">>,
                <<"c","l","i","e","n","t">> >>],
          [base_term |-> <<"p","h","y","s","i","c","i","a","n">>,
           alternatives |->
             << <<"d","o","c","t","o","r">>,
                <<"c","l","i","n","i","c","i","a","n">>,
                <<"p","r","a","c","t","i","t","i","o","n","e","r">>,
                <<"m","e","d","i","c","a","l"," ","p","r","o","f","e","s","s","i","o","n","a","l">> >>],
          [base_term |-> <<"e","x","a","m","i","n","a","t","i","o","n">>,
           alternatives |->
             << <<"c","h","e","c","k","u","p">>,
                <<"a","s","s","e","s","s","m","e","n","t">>,
                <<"e","v","a","l","u","a","t","i","o","n">>,
                <<"s","c","r","e","e","n","i","n","g">> >>] >>],
      [domain |-> <<"l","e","g","a","l">>,
       groups |-> <<
          [base_term |-> <<"c","o","n","t","r","a","c","t">>,
           alternatives |->
             << <<"a","g","r","e","e","m","e","n","t">>,
                <<"c","o","v","e","n","a","n","t">>,
                <<"p","a","c","t">>,
                <<"a","r","r","a","n","g","e","m","e","n","t">> >>],
          [base_term |-> <<"l","i","t","i","g","a","t","i","o","n">>,
           alternatives |->
             << <<"l","a","w","s","u","i","t">>,
                <<"l","e","g","a","l"," ","a","c","t","i","o","n">>,
                <<"p","r","o","c","e","e","d","i","n","g","s">>,
                <<"c","a","s","e">> >>],
          [base_term |-> <<"c","o","m","p","l","i","a","n","c","e">>,
           alternatives |->
             << <<"a","d","h","e","r","e","n","c","e">>,
                <<"c","o","n","f","o","r","m","i","t","y">>,
                <<"o","b","s","e","r","v","a","n","c","e">>,
                <<"a","c","c","o","r","d","a","n","c","e">> >>],
          [base_term |-> <<"r","e","g","u","l","a","t","i","o","n">>,
           alternatives |->
             << <<"r","u","l","e">>,
                <<"l","a","w">>,
                <<"s","t","a","t","u","t","e">>,
                <<"o","r","d","i","n","a","n","c","e">> >>],
          [base_term |-> <<"l","i","a","b","i","l","i","t","y">>,
           alternatives |->
             << <<"r","e","s","p","o","n","s","i","b","i","l","i","t","y">>,
                <<"a","c","c","o","u","n","t","a","b","i","l","i","t","y">>,
                <<"o","b","l","i","g","a","t","i","o","n">>,
                <<"d","u","t","y">> >>],
          [base_term |-> <<"j","u","r","i","s","d","i","c","t","i","o","n">>,
           alternatives |->
             << <<"a","u","t","h","o","r","i","t","y">>,
                <<"d","o","m","a","i","n">>,
                <<"t","e","r","r","i","t","o","r","y">>,
                <<"p","u","r","v","i","e","w">> >>],
          [base_term |-> <<"p","l","a","i","n","t","i","f","f">>,
           alternatives |->
             << <<"c","l","a","i","m","a","n","t">>,
                <<"c","o","m","p","l","a","i","n","a","n","t">>,
                <<"p","e","t","i","t","i","o","n","e","r">>,
                <<"l","i","t","i","g","a","n","t">> >>],
          [base_term |-> <<"d","e","f","e","n","d","a","n","t">>,
           alternatives |->
             << <<"r","e","s","p","o","n","d","e","n","t">>,
                <<"a","c","c","u","s","e","d">>,
                <<"p","a","r","t","y">> >>] >>],
      [domain |-> <<"f","i","n","a","n","c","e">>,
       groups |-> <<
          [base_term |-> <<"i","n","v","e","s","t","m","e","n","t">>,
           alternatives |->
             << <<"c","a","p","i","t","a","l"," ","a","l","l","o","c","a","t","i","o","n">>,
                <<"f","u","n","d","i","n","g">>,
                <<"s","t","a","k","e">>,
                <<"p","o","r","t","f","o","l","i","o">> >>],
          [base_term |-> <<"r","e","v","e","n","u","e">>,
           alternatives |->
             << <<"i","n","c","o","m","e">>,
                <<"e","a","r","n","i","n","g","s">>,
                <<"p","r","o","c","e","e","d","s">>,
                <<"r","e","c","e","i","p","t","s">> >>],
          [base_term |-> <<"e","x","p","e","n","d","i","t","u","r","e">>,
           alternatives |->
             << <<"e","x","p","e","n","s","e">>,
                <<"c","o","s","t">>,
                <<"o","u","t","l","a","y">>,
                <<"s","p","e","n","d","i","n","g">> >>],
          [base_term |-> <<"p","r","o","f","i","t">>,
           alternatives |->
             << <<"g","a","i","n">>,
                <<"r","e","t","u","r","n">>,
                <<"e","a","r","n","i","n","g","s">>,
                <<"s","u","r","p","l","u","s">> >>],
          [base_term |-> <<"a","s","s","e","t">>,
           alternatives |->
             << <<"h","o","l","d","i","n","g">>,
                <<"p","r","o","p","e","r","t","y">>,
                <<"r","e","s","o","u","r","c","e">>,
                <<"c","a","p","i","t","a","l">> >>],
          [base_term |-> <<"l","i","a","b","i","l","i","t","y">>,
           alternatives |->
             << <<"d","e","b","t">>,
                <<"o","b","l","i","g","a","t","i","o","n">>,
                <<"c","o","m","m","i","t","m","e","n","t">>,
                <<"p","a","y","a","b","l","e">> >>],
          [base_term |-> <<"t","r","a","n","s","a","c","t","i","o","n">>,
           alternatives |->
             << <<"d","e","a","l">>,
                <<"t","r","a","d","e">>,
                <<"e","x","c","h","a","n","g","e">>,
                <<"o","p","e","r","a","t","i","o","n">> >>],
          [base_term |-> <<"p","o","r","t","f","o","l","i","o">>,
           alternatives |->
             << <<"h","o","l","d","i","n","g","s">>,
                <<"i","n","v","e","s","t","m","e","n","t","s">>,
                <<"a","s","s","e","t","s">>,
                <<"c","o","l","l","e","c","t","i","o","n">> >>] >>],
      [domain |-> <<"m","a","r","k","e","t","i","n","g">>,
       groups |-> <<
          [base_term |-> <<"c","a","m","p","a","i","g","n">>,
           alternatives |->
             << <<"i","n","i","t","i","a","t","i","v","e">>,
                <<"p","r","o","g","r","a","m">>,
                <<"e","f","f","o","r","t">>,
                <<"d","r","i","v","e">> >>],
          [base_term |-> <<"e","n","g","a","g","e","m","e","n","t">>,
           alternatives |->
             << <<"i","n","t","e","r","a","c","t","i","o","n">>,
                <<"i","n","v","o","l","v","e","m","e","n","t">>,
                <<"p","a","r","t","i","c","i","p","a","t","i","o","n">>,
                <<"a","c","t","i","v","i","t","y">> >>],
          [base_term |-> <<"c","o","n","v","e","r","s","i","o","n">>,
           alternatives |->
             << <<"a","c","q","u","i","s","i","t","i","o","n">>,
                <<"s","a","l","e">>,
                <<"s","i","g","n","u","p">>,
                <<"r","e","g","i","s","t","r","a","t","i","o","n">> >>],
          [base_term |-> <<"a","u","d","i","e","n","c","e">>,
           alternatives |->
             << <<"m","a","r","k","e","t">>,
                <<"d","e","m","o","g","r","a","p","h","i","c">>,
                <<"t","a","r","g","e","t"," ","g","r","o","u","p">>,
                <<"c","o","n","s","u","m","e","r","s">> >>],
          [base_term |-> <<"b","r","a","n","d">>,
           alternatives |->
             << <<"t","r","a","d","e","m","a","r","k">>,
                <<"i","d","e","n","t","i","t","y">>,
                <<"l","a","b","e","l">>,
                <<"n","a","m","e">> >>],
          [base_term |-> <<"c","o","n","t","e","n","t">>,
           alternatives |->
             << <<"m","a","t","e","r","i","a","l">>,
                <<"c","o","p","y">>,
                <<"m","e","s","s","a","g","i","n","g">>,
                <<"c","o","l","l","a","t","e","r","a","l">> >>],
          [base_term |-> <<"s","t","r","a","t","e","g","y">>,
           alternatives |->
             << <<"p","l","a","n">>,
                <<"a","p","p","r","o","a","c","h">>,
                <<"t","a","c","t","i","c">>,
                <<"m","e","t","h","o","d","o","l","o","g","y">> >>] >>],
      [domain |-> <<"g","e","n","e","r","a","l">>,
       groups |-> <<
          [base_term |-> <<"u","t","i","l","i","z","e">>,
           alternatives |->
             << <<"u","s","e">>,
                <<"e","m","p","l","o","y">>,
                <<"a","p","p","l","y">>,
                <<"l","e","v","e","r","a","g","e">> >>],
          [base_term |-> <<"f","a","c","i","l","i","t","a","t","e">>,
           alternatives |->
             << <<"e","n","a","b","l","e">>,
                <<"s","u","p","p","o","r","t">>,
                <<"a","s","s","i","s","t">>,
                <<"h","e","l","p">> >>],
          [base_term |-> <<"i","m","p","l","e","m","e","n","t">>,
           alternatives |->
             << <<"e","x","e","c","u","t","e">>,
                <<"d","e","p","l","o","y">>,
                <<"a","p","p","l","y">>,
                <<"c","a","r","r","y"," ","o","u","t">> >>],
          [base_term |-> <<"o","p","t","i","m","i","z","e">>,
           alternatives |->
             << <<"i","m","p","r","o","v","e">>,
                <<"e","n","h","a","n","c","e">>,
                <<"r","e","f","i","n","e">>,
                <<"p","e","r","f","e","c","t">> >>],
          [base_term |-> <<"a","n","a","l","y","z","e">>,
           alternatives |->
             << <<"e","x","a","m","i","n","e">>,
                <<"s","t","u","d","y">>,
                <<"e","v","a","l","u","a","t","e">>,
                <<"a","s","s","e","s","s">> >>],
          [base_term |-> <<"d","e","m","o","n","s","t","r","a","t","e">>,
           alternatives |->
             << <<"s","h","o","w">>,
                <<"i","l","l","u","s","t","r","a","t","e">>,
                <<"d","i","s","p","l","a","y">>,
                <<"e","x","h","i","b","i","t">> >>],
          [base_term |-> <<"e","s","t","a","b","l","i","s","h">>,
           alternatives |->
             << <<"c","r","e","a","t","e">>,
                <<"s","e","t"," ","u","p">>,
                <<"f","o","r","m">>,
                <<"i","n","s","t","i","t","u","t","e">> >>],
          [base_term |-> <<"m","a","i","n","t","a","i","n">>,
           alternatives |->
             << <<"p","r","e","s","e","r","v","e">>,
                <<"s","u","s","t","a","i","n">>,
                <<"k","e","e","p">>,
                <<"u","p","h","o","l","d">> >>] >>]
    >>

\* HotMatchDetector()
NewDetector ==
    /\ interchangeable_patterns = InitialPatterns
    /\ detRet = [op |-> "none"]

\* no call of a stateless function is in progress
NoCall ==
    /\ fnCall = [fn |-> "none"]
    /\ fnRet = [fn |-> "none"]

----------------------------------------------------------------------------
(* Bounds *)

MaxRecords == 3      \* rows the selection store may hold
MaxTicks == 2        \* clock advances (of half a TTL period each) per behaviour
NumTasks == 2        \* concurrent record_user_selection calls
PctScale == 100      \* fixed-point resolution of a percentage

----------------------------------------------------------------------------
(* Strings *)

LowerChar(c) ==
    CASE c = "A" -> "a"
      [] c = "B" -> "b"
      [] c = "C" -> "c"
      [] c = "D" -> "d"
      [] c = "E" -> "e"
      [] c = "F" -> "f"
      [] c = "G" -> "g"
      [] c = "H" -> "h"
      [] c = "I" -> "i"
      [] c = "J" -> "j"
      [] c = "K" -> "k"
      [] c = "L" -> "l"
      [] c = "M" -> "m"
      [] c = "N" -> "n"
      [] c = "O" -> "o"
      [] c = "P" -> "p"
      [] c = "Q" -> "q"
      [] c = "R" -> "r"
      [] c = "S" -> "s"
      [] c = "T" -> "t"
      [] c = "U" -> "u"
      [] c = "V" -> "v"
      [] c = "W" -> "w"
      [] c = "X" -> "x"
      [] c = "Y" -> "y"
      [] c = "Z" -> "z"
      [] OTHER -> c

\* str.lower()
Lower(s) == [i \in 1..Len(s) |-> LowerChar(s[i])]

Range(s) == {s[i] : i \in 1..Len(s)}

\* character classes of Python's re and str (ASCII letters and digits)
IsUpper(c) == LowerChar(c) # c

\* [0-9] and [a-z]
DigitChars == {"0","1","2","3","4","5","6","7","8","9"}

LowerChars ==
    {"a","b","c","d","e","f","g","h","i","j","k","l","m",
     "n","o","p","q","r","s","t","u","v","w","x","y","z"}

\* \w
IsWordChar(c) == IsUpper(c) \/ c \in LowerChars \/ c \in DigitChars \/ c = "_"

\* \s
IsSpace(c) == c \in {" ", "\t", "\n"}

\* [一-鿿぀-ゟ゠-ヿ가-힯]; a code point outside
\* ASCII is written by its name
IsCJK(c) == c \in {"U+4E2D", "U+6587"}

\* [。！？] (U+3002, U+FF01, U+FF1F)
IsCJKTerminator(c) == c \in {"U+3002", "U+FF01", "U+FF1F"}

\* s[a:b] for 1-based a and inclusive b
Slice(s, a, b) == IF a > b THEN <<>> ELSE SubSeq(s, a, b)

\* first position >= p whose character is not whitespace (Len(s) + 1 if none)
RECURSIVE SkipSpaces(_, _)
SkipSpaces(s, p) ==
    IF p <= Len(s) /\ IsSpace(s[p]) THEN SkipSpaces(s, p + 1) ELSE p

\* str.strip()
RECURSIVE StripRight(_)
StripRight(s) ==
    IF s # <<>> /\ IsSpace(s[Len(s)]) THEN StripRight(SubSeq(s, 1, Len(s) - 1)) ELSE s

Strip(s) == StripRight(Slice(s, SkipSpaces(s, 1), Len(s)))

\* first position >= p whose character is not in chars (Len(s) + 1 if none):
\* where a greedy [chars]* that starts at p ends
RECURSIVE SkipWhile(_, _, _)
SkipWhile(chars, s, p) ==
    IF p <= Len(s) /\ s[p] \in chars THEN SkipWhile(chars, s, p + 1) ELSE p

\* first position >= p whose character is c (Len(s) + 1 if none): where a
\* greedy [^c]* that starts at p ends
RECURSIVE SkipUntil(_, _, _)
SkipUntil(c, s, p) ==
    IF p <= Len(s) /\ s[p] # c THEN SkipUntil(c, s, p + 1) ELSE p

\* s.count(c) for a single character
CountChar(s, c) == Cardinality({i \in 1..Len(s) : s[i] = c})

----------------------------------------------------------------------------
(* HotMatchService: inputs *)

Users == {"u1"}

\* (baseTerm, domain) pairs of recorded selections
GroupInputs ==
    { << <<"a","b">>, <<"c">> >>,
      << <<"A","b">>, <<"C">> >>,
      << <<"a">>, <<"b","c">> >> }

Rollout == <<"r","o","l","l","o","u","t">>

\* selectedTerm values of a record request (HotMatchRecordRequest.selectedTerm: str)
SelTerms == { <<"A">>, Rollout, <<>> }

\* terms asked for by get_hot_match_percentage
GetTerms == SelTerms \cup { <<"a">> }

\* terms lists passed to get_all_percentages_for_group
TermLists ==
    { << <<"A">>, Rollout >>,
      << <<"a">>, <<"A">> >>,
      << Rollout, <<>> >> }

CacheTtl == 3600

\* the clock advances in steps of half a TTL period
TickLen == CacheTtl \div 2

\* hashlib.md5(...).hexdigest(): an injective map from the hashed text to a digest
Md5(s) == <<"md5", s>>

generate_base_term_hash_CaseSensitive(base_term, domain) ==
    Md5(base_term \o domain)

generate_base_term_hash(base_term, domain) ==
    Md5(Lower(base_term) \o Lower(domain))

Hashes == {generate_base_term_hash(g[1], g[2]) : g \in GroupInputs}

\* f"hot_match:{base_term_hash}:{term}"
CacheKey(h, term) == <<"hot_match", h, term>>

CacheKeys == {CacheKey(h, Lower(t)) : h \in Hashes, t \in GetTerms}

NoEntry == [present |-> FALSE]

\* str(percentage) and float(cached): the text of a float and its value
StrOf(p) == <<"str", p>>
FloatOf(s) == s[2]

----------------------------------------------------------------------------
(* HotMatchService: collaborators (selection store and cache) *)

\* supabase.table('hot_match_selections').insert(selection_data).execute()
StoreInsert(s, row) == Append(s, row)

\* supabase.table('hot_match_selections').select('*').eq('base_term_hash', h).execute().data
StoreSelect(s, h) == SelectSeq(s, LAMBDA r : r.base_term_hash = h)

\* cache.get(key): the value, or None once the TTL has run out
CacheGet(c, t, key) ==
    IF c[key].present /\ t < c[key].expires THEN c[key].value ELSE "None"

\* cache.setex(key, ttl, value)
CacheSetex(c, t, key, ttl, value) ==
    [c EXCEPT ![key] = [present |-> TRUE, value |-> value, expires |-> t + ttl]]

----------------------------------------------------------------------------
(* HotMatchService: failures of the collaborators, all swallowed by the code *)

NoFaults == [append |-> FALSE, query |-> FALSE, cget |-> {}, cset |-> {}]

FaultsFor(keys) ==
    [append : BOOLEAN, query : BOOLEAN, cget : SUBSET keys, cset : SUBSET keys]

\* the rows of the store, whether or not the query raises
GetSelectionsFromDatabase_IgnoresFailure(s, h, f) == StoreSelect(s, h)

\* _get_selections_from_database: [] when the query raises
GetSelectionsFromDatabase(s, h, f) ==
    IF f.query THEN <<>> ELSE StoreSelect(s, h)

\* _get_from_cache: None when the cache get raises
GetFromCache(c, t, key, f) ==
    IF key \in f.cget THEN "None" ELSE CacheGet(c, t, key)

\* _set_in_cache: nothing is written when the cache set raises
SetInCache(c, t, key, value, ttl, f) ==
    IF key \in f.cset THEN c ELSE CacheSetex(c, t, key, ttl, value)

----------------------------------------------------------------------------
(* HotMatchService: percentages *)

\* (count / total) * 100
Percentage(count, total) == (count * 100 * PctScale) \div total

\* number of rows whose selected_term, lowercased, is the given lowercased term
CountTerm(sel, term_lower) ==
    Len(SelectSeq(sel, LAMBDA r : Lower(r.selected_term) = term_lower))

mock_percentages(t) ==
    CASE t = <<"i","m","p","l","e","m","e","n","t","a","t","i","o","n">> -> 75 * PctScale
      [] t = <<"d","e","p","l","o","y","m","e","n","t">> -> 15 * PctScale
      [] t = Rollout -> 8 * PctScale
      [] t = <<"i","n","t","e","g","r","a","t","i","o","n">> -> 2 * PctScale
      [] t = <<"t","r","e","a","t","m","e","n","t">> -> 82 * PctScale
      [] t = <<"t","h","e","r","a","p","y">> -> 12 * PctScale
      [] t = <<"i","n","t","e","r","v","e","n","t","i","o","n">> -> 4 * PctScale
      [] t = <<"m","a","n","a","g","e","m","e","n","t">> -> 2 * PctScale
      [] OTHER -> 0

_get_mock_percentage(term) == mock_percentages(Lower(term))

\* _calculate_hot_match_percentage: the value, and whether the store was queried
CalculateHotMatchPercentage(sb, s, h, term, f) ==
    IF ~sb THEN [value |-> _get_mock_percentage(term), queried |-> FALSE]
    ELSE LET selections_data == GetSelectionsFromDatabase(s, h, f)
             total_selections == Len(selections_data)
             term_selections == CountTerm(selections_data, Lower(term))
         IN  IF selections_data = <<>>
             THEN [value |-> 0, queried |-> TRUE]
             ELSE [value |-> Percentage(term_selections, total_selections),
                   queried |-> TRUE]

\* term_counts of _update_hot_match_percentages: the keys of the dict in
\* insertion order (first occurrence of each non-empty lowercased term)
RECURSIVE TermOrder(_)
TermOrder(sel) ==
    IF sel = <<>> THEN <<>>
    ELSE LET front == TermOrder(SubSeq(sel, 1, Len(sel) - 1))
             term == Lower(sel[Len(sel)].selected_term)
         IN  IF term # <<>> /\ term \notin Range(front)
             THEN Append(front, term) ELSE front

\* the (cache_key, percentage) pairs that _update_hot_match_percentages sets, in order
Publications(sel, h) ==
    LET order == TermOrder(sel)
    IN  [i \in 1..Len(order) |->
            [key |-> CacheKey(h, order[i]),
             value |-> StrOf(Percentage(CountTerm(sel, order[i]), Len(sel)))]]

RECURSIVE PublishAll(_, _, _, _)
PublishAll(c, t, pubs, f) ==
    IF pubs = <<>> THEN c
    ELSE PublishAll(SetInCache(c, t, pubs[1].key, pubs[1].value, CacheTtl, f),
                    t, Tail(pubs), f)

\* _update_hot_match_percentages: the cache after the recompute
UpdateHotMatchPercentages(sb, cs, s, c, t, h, f) ==
    IF ~sb THEN c
    ELSE LET selections_data == GetSelectionsFromDatabase(s, h, f)
         IN  IF selections_data = <<>> THEN c
             ELSE IF cs THEN PublishAll(c, t, Publications(selections_data, h), f)
             ELSE c

\* get_hot_match_percentage that never consults the cache
GetHotMatchPercentage_NoCacheRead(sb, cs, s, c, t, h, term, f) ==
    LET cache_key == CacheKey(h, Lower(term))
        calc == CalculateHotMatchPercentage(sb, s, h, term, f)
    IN  [value |-> calc.value,
         cache |-> IF cs THEN SetInCache(c, t, cache_key, StrOf(calc.value), CacheTtl, f)
                   ELSE c,
         queried |-> calc.queried]

\* get_hot_match_percentage: value returned, cache afterwards, store queried or not
GetHotMatchPercentage(sb, cs, s, c, t, h, term, f) ==
    LET cache_key == CacheKey(h, Lower(term))
        cached_percentage == IF cs THEN GetFromCache(c, t, cache_key, f) ELSE "None"
        calc == CalculateHotMatchPercentage(sb, s, h, term, f)
    IN  IF cached_percentage # "None"
        THEN [value |-> FloatOf(cached_percentage), cache |-> c, queried |-> FALSE]
        ELSE [value |-> calc.value,
              cache |-> IF cs THEN SetInCache(c, t, cache_key, StrOf(calc.value), CacheTtl, f)
                        ELSE c,
              queried |-> calc.queried]

\* get_all_percentages_for_group: the loop over terms, threading the cache
RECURSIVE GetAllPercentages(_, _, _, _, _, _, _, _)
GetAllPercentages(sb, cs, s, c, t, h, terms, f) ==
    IF terms = <<>> THEN [percentages |-> <<>>, cache |-> c]
    ELSE LET one == GetHotMatchPercentage(sb, cs, s, c, t, h, terms[1], f)
             rest == GetAllPercentages(sb, cs, s, one.cache, t, h, Tail(terms), f)
         IN  [percentages |-> <<one.value>> \o rest.percentages, cache |-> rest.cache]

\* the dict built by get_all_percentages_for_group: a later entry for the same
\* term replaces an earlier one
PercentagesDict(terms, values) ==
    [term \in Range(terms) |->
        values[CHOOSE i \in 1..Len(terms) :
                   terms[i] = term /\ \A j \in (i+1)..Len(terms) : terms[j] # term]]

\* record_user_selection: value returned, store and cache afterwards
RecordUserSelectionResult(sb, cs, s, c, t, user, g, selected, f) ==
    LET base_term_hash == generate_base_term_hash(g[1], g[2])
        selection_data == [user_id |-> user, base_term_hash |-> base_term_hash,
                           selected_term |-> selected]
        s1 == IF sb THEN StoreInsert(s, selection_data) ELSE s
    IN  IF sb /\ f.append
        THEN [value |-> FALSE, store |-> s, cache |-> c]
        ELSE [value |-> TRUE, store |-> s1,
              cache |-> UpdateHotMatchPercentages(sb, cs, s1, c, t, base_term_hash, f)]

----------------------------------------------------------------------------
(* HotMatchService: sequential calls *)

IdleTasks == [i \in 1..NumTasks |-> [pc |-> "idle"]]

NoRet == [op |-> "none"]

InitTracker ==
    /\ supabase \in BOOLEAN
    /\ cacheSvc \in BOOLEAN
    /\ store = <<>>
    /\ cache = [k \in CacheKeys |-> NoEntry]
    /\ now = 0
    /\ tasks = IdleTasks
    /\ ret = NoRet
    /\ NewChecker
    /\ NewEngine
    /\ NoCall
    /\ NewDetector

\* record_user_selection, as one uninterrupted call
RecordUserSelection(user, g, selected, f) ==
    LET r == RecordUserSelectionResult(supabase, cacheSvc, store, cache, now,
                                       user, g, selected, f)
    IN  /\ Len(store) < MaxRecords
        /\ store' = r.store
        /\ cache' = r.cache
        /\ ret' = [op |-> "record", value |-> r.value]
        /\ UNCHANGED <<supabase, cacheSvc, now, tasks, checkerVars, engineVars, callVars, detectorVars>>

GetPercentage(h, term, f) ==
    LET r == GetHotMatchPercentage(supabase, cacheSvc, store, cache, now, h, term, f)
    IN  /\ cache' = r.cache
        /\ ret' = [op |-> "get", queried |-> r.queried]
        /\ UNCHANGED <<supabase, cacheSvc, store, now, tasks, checkerVars, engineVars, callVars, detectorVars>>

GetAllPercentagesForGroup(h, terms, f) ==
    LET r == GetAllPercentages(supabase, cacheSvc, store, cache, now, h, terms, f)
    IN  /\ cache' = r.cache
        /\ ret' = [op |-> "get_all"]
        /\ UNCHANGED <<supabase, cacheSvc, store, now, tasks, checkerVars, engineVars, callVars, detectorVars>>

\* half a TTL period passes; the cache drops the entries whose TTL has run out
Tick ==
    LET t == now + TickLen
    IN  /\ now < MaxTicks * TickLen
        /\ now' = t
        /\ cache' = [k \in CacheKeys |->
                        IF cache[k].present /\ cache[k].expires <= t
                        THEN NoEntry ELSE cache[k]]
        /\ ret' = NoRet
        /\ UNCHANGED <<supabase, cacheSvc, store, tasks, checkerVars, engineVars, callVars, detectorVars>>

KeysOf(h, terms) == {CacheKey(h, Lower(t)) : t \in terms}

Record ==
    \E user \in Users, g \in GroupInputs, selected \in SelTerms :
        RecordUserSelection(user, g, selected, NoFaults)

Get ==
    \E h \in Hashes, term \in GetTerms : GetPercentage(h, term, NoFaults)

GetAll ==
    \E h \in Hashes, terms \in TermLists : GetAllPercentagesForGroup(h, terms, NoFaults)

NextTracker == Record \/ Get \/ GetAll \/ Tick

SpecTracker == InitTracker /\ [][NextTracker]_vars

----------------------------------------------------------------------------
(* HotMatchService: swallowed cache failures *)

CacheFaultsFor(keys) ==
    [append : {FALSE}, query : {FALSE}, cget : SUBSET keys, cset : SUBSET keys]

\* record_user_selection only sets cache entries
CacheSetFaultsFor(keys) ==
    [append : {FALSE}, query : {FALSE}, cget : {{}}, cset : SUBSET keys]

RecordCacheFault ==
    \E user \in Users, g \in GroupInputs, selected \in SelTerms :
        \E f \in CacheSetFaultsFor(KeysOf(generate_base_term_hash(g[1], g[2]),
                                          SelTerms \ {<<>>})) :
            RecordUserSelection(user, g, selected, f)

GetCacheFault ==
    \E h \in Hashes, term \in GetTerms :
        \E f \in CacheFaultsFor(KeysOf(h, {term})) : GetPercentage(h, term, f)

GetAllCacheFault ==
    \E h \in Hashes, terms \in TermLists :
        \E f \in CacheFaultsFor(KeysOf(h, Range(terms))) :
            GetAllPercentagesForGroup(h, terms, f)

NextCacheFaults == RecordCacheFault \/ GetCacheFault \/ GetAllCacheFault \/ Tick

SpecCacheFaults == InitTracker /\ [][NextCacheFaults]_vars

----------------------------------------------------------------------------
(* HotMatchService: a store that fails *)

AppendFails == [append |-> TRUE, query |-> FALSE, cget |-> {}, cset |-> {}]

QueryFails == [append |-> FALSE, query |-> TRUE, cget |-> {}, cset |-> {}]

\* record_user_selection appends, then queries
RecordStoreFault ==
    \E user \in Users, g \in GroupInputs, selected \in SelTerms :
        \E f \in {NoFaults, AppendFails, QueryFails} :
            RecordUserSelection(user, g, selected, f)

\* get_hot_match_percentage only queries
GetStoreFault ==
    \E h \in Hashes, term \in GetTerms :
        \E f \in {NoFaults, QueryFails} : GetPercentage(h, term, f)

GetAllStoreFault ==
    \E h \in Hashes, terms \in TermLists :
        \E f \in {NoFaults, QueryFails} : GetAllPercentagesForGroup(h, terms, f)

NextStoreFaults == RecordStoreFault \/ GetStoreFault \/ GetAllStoreFault

SpecStoreFaults == InitTracker /\ [][NextStoreFaults]_vars

\* record_user_selection returns False and leaves store and cache alone
RecordDegrades(r) == r.value = FALSE /\ r.store = store /\ r.cache = cache

\* the term is answered from an unexpired cache entry: the store is not queried
ServedFromCache(h, term) ==
    cacheSvc /\ CacheGet(cache, now, CacheKey(h, Lower(term))) # "None"

GetDegrades(h, term, r) == ~ServedFromCache(h, term) => (r.queried /\ r.value = 0)

GetAllDegrades(h, terms, r) ==
    \A i \in 1..Len(terms) :
        ~ServedFromCache(h, terms[i]) => r.percentages[i] = 0

----------------------------------------------------------------------------
(* HotMatchService: concurrent record_user_selection coroutines, one step   *)
(* per await                                                                *)

InitRace ==
    /\ supabase = TRUE
    /\ cacheSvc = TRUE
    /\ store = <<>>
    /\ cache = [k \in CacheKeys |-> NoEntry]
    /\ now = 0
    /\ tasks = IdleTasks
    /\ ret = NoRet
    /\ NewChecker
    /\ NewEngine
    /\ NoCall
    /\ NewDetector

\* await self._store_in_database(selection_data)
TaskStore(i, user, g, selected) ==
    LET base_term_hash == generate_base_term_hash(g[1], g[2])
        selection_data == [user_id |-> user, base_term_hash |-> base_term_hash,
                           selected_term |-> selected]
    IN  /\ tasks[i].pc = "idle"
        /\ Len(store) < MaxRecords
        /\ store' = StoreInsert(store, selection_data)
        /\ tasks' = [tasks EXCEPT ![i] = [pc |-> "stored", hash |-> base_term_hash]]
        /\ UNCHANGED <<supabase, cacheSvc, cache, now, ret, checkerVars, engineVars, callVars, detectorVars>>

\* await self._get_selections_from_database(base_term_hash), then term_counts
TaskQuery(i) ==
    /\ tasks[i].pc = "stored"
    /\ LET selections_data == StoreSelect(store, tasks[i].hash)
       IN  tasks' = [tasks EXCEPT ![i] =
                        [pc |-> "publishing", hash |-> tasks[i].hash,
                         pubs |-> Publications(selections_data, tasks[i].hash)]]
    /\ UNCHANGED <<supabase, cacheSvc, store, cache, now, ret, checkerVars, engineVars, callVars, detectorVars>>

\* await self._set_in_cache(cache_key, str(percentage), self.cache_ttl)
TaskPublish(i) ==
    /\ tasks[i].pc = "publishing"
    /\ tasks[i].pubs # <<>>
    /\ cache' = CacheSetex(cache, now, tasks[i].pubs[1].key, CacheTtl,
                           tasks[i].pubs[1].value)
    /\ tasks' = [tasks EXCEPT ![i].pubs = Tail(@)]
    /\ UNCHANGED <<supabase, cacheSvc, store, now, ret, checkerVars, engineVars, callVars, detectorVars>>

\* return True
TaskReturn(i) ==
    /\ tasks[i].pc = "publishing"
    /\ tasks[i].pubs = <<>>
    /\ tasks' = [tasks EXCEPT ![i] = [pc |-> "done", hash |-> tasks[i].hash]]
    /\ ret' = [op |-> "record", value |-> TRUE]
    /\ UNCHANGED <<supabase, cacheSvc, store, cache, now, checkerVars, engineVars, callVars, detectorVars>>

RaceStore ==
    \E i \in 1..NumTasks, user \in Users, g \in GroupInputs, selected \in SelTerms :
        TaskStore(i, user, g, selected)

RaceQuery == \E i \in 1..NumTasks : TaskQuery(i)

RacePublish == \E i \in 1..NumTasks : TaskPublish(i)

RaceReturn == \E i \in 1..NumTasks : TaskReturn(i)

NextRace == RaceStore \/ RaceQuery \/ RacePublish \/ RaceReturn

SpecRace == InitRace /\ [][NextRace]_vars

----------------------------------------------------------------------------
(* HotMatchService: properties *)

\* v is (count / total) * 100 at the model's resolution
IsPercentageOf(v, count, total) ==
    /\ v * total <= count * 100 * PctScale
    /\ count * 100 * PctScale < (v + 1) * total

\* the percentage the rows of group h give to a term, compared on lowercased terms
IsStorePercentage(v, s, h, term) ==
    LET sel == StoreSelect(s, h)
    IN  IF sel = <<>> THEN v = 0
        ELSE IsPercentageOf(v, CountTerm(sel, Lower(term)), Len(sel))

RECURSIVE SumValues(_)
SumValues(pubs) ==
    IF pubs = <<>> THEN 0 ELSE FloatOf(pubs[1].value) + SumValues(Tail(pubs))

AllTasksDone == \A i \in 1..NumTasks : tasks[i].pc = "done"

RecoversAfter(h, term, degraded) ==
    degraded.queried =>
        IsStorePercentage(
            GetHotMatchPercentage(supabase, cacheSvc, store, degraded.cache, now,
                                  h, term, NoFaults).value,
            store, h, term)

DifferentGroups(g, other) ==
    <<Lower(g[1]), Lower(g[2])>> # <<Lower(other[1]), Lower(other[2])>>

\* the rows counted and the percentages served for group h are the same
\* before and after a call that left the store and cache of r
SameForGroup(h, r) ==
    /\ StoreSelect(r.store, h) = StoreSelect(store, h)
    /\ \A term \in GetTerms :
          GetHotMatchPercentage(supabase, cacheSvc, r.store, r.cache, now,
                                h, term, NoFaults).value
            = GetHotMatchPercentage(supabase, cacheSvc, store, cache, now,
                                    h, term, NoFaults).value

Isolated(g, other) ==
    /\ generate_base_term_hash(g[1], g[2]) # generate_base_term_hash(other[1], other[2])
    /\ \A user \in Users, selected \in SelTerms :
          SameForGroup(generate_base_term_hash(other[1], other[2]),
              RecordUserSelectionResult(supabase, cacheSvc, store, cache, now,
                                        user, g, selected, NoFaults))

\* C28: term groups are isolated: two (base_term, domain) pairs that differ
\* after lowercasing get different ids and cache keys, and recording a
\* selection for one never changes the records counted or the percentages
\* served for the other
C28_GroupsIsolated ==
    supabase =>
        \A g \in GroupInputs, other \in GroupInputs :
            DifferentGroups(g, other) => Isolated(g, other)

\* the row record_user_selection stores for a call
SelectionRow(user, g, selected) ==
    [user_id |-> user, base_term_hash |-> generate_base_term_hash(g[1], g[2]),
     selected_term |-> selected]

TrueOnlyIfAppended(r, row) ==
    IF r.value
    THEN r.store = StoreInsert(store, row) /\ \E k \in 1..Len(r.store) : r.store[k] = row
    ELSE r.store = store

\* C29: record_user_selection returns True only if the selection record was
\* appended to the selection store: with or without a store client, after a
\* call that returned True the store holds a record with the call's user,
\* group hash and selected term, and after a call that returned False the
\* store is unchanged
C29_TrueOnlyIfAppended ==
    \A user \in Users, g \in GroupInputs, selected \in SelTerms :
        \A f \in {NoFaults, AppendFails} :
            TrueOnlyIfAppended(
                RecordUserSelectionResult(supabase, cacheSvc, store, cache, now,
                                          user, g, selected, f),
                SelectionRow(user, g, selected))


----------------------------------------------------------------------------
(* ConsistencyCheckService: the regular expressions of the checks *)

\* re.escape(pattern) matched at position p, with or without re.IGNORECASE:
\* the end of the match, 0 when there is none
LiteralMatchEnd(pattern, ignore_case, text, p) ==
    LET e == p + Len(pattern)
    IN  IF e > Len(text) + 1 THEN 0
        ELSE LET piece == Slice(text, p, e - 1)
             IN  IF \/ piece = pattern
                    \/ ignore_case /\ Lower(piece) = Lower(pattern)
                 THEN e ELSE 0

\* \b[A-Z][a-z]+\b matched at position p
CapWordMatchEnd(text, p) ==
    IF p > Len(text) THEN 0
    ELSE IF ~IsUpper(text[p]) THEN 0
    ELSE IF p > 1 /\ IsWordChar(text[p - 1]) THEN 0
    ELSE LET e == SkipWhile(LowerChars, text, p + 1)
         IN  IF e = p + 1 THEN 0
             ELSE IF e <= Len(text) /\ IsWordChar(text[e]) THEN 0
             ELSE e

\* (?:[.,]\d+)* from position p, greedy
RECURSIVE NumberTail(_, _)
NumberTail(text, p) ==
    IF /\ p + 1 <= Len(text)
       /\ text[p] \in {".", ","}
       /\ text[p + 1] \in DigitChars
    THEN NumberTail(text, SkipWhile(DigitChars, text, p + 1))
    ELSE p

\* \d+(?:[.,]\d+)* matched at position p
NumberMatchEnd(text, p) ==
    IF p <= Len(text) /\ text[p] \in DigitChars
    THEN NumberTail(text, SkipWhile(DigitChars, text, p))
    ELSE 0

\* '  +' matched at position p
SpacesMatchEnd(text, p) ==
    LET e == SkipWhile({" "}, text, p)
    IN  IF e >= p + 2 THEN e ELSE 0

\* open [^close]+ close matched at position p
DelimitedMatchEnd(open, close, text, p) ==
    IF p > Len(text) THEN 0
    ELSE IF text[p] # open THEN 0
    ELSE LET q == SkipUntil(close, text, p + 1)
         IN  IF q > Len(text) \/ q = p + 1 THEN 0 ELSE q + 1

\* \{[^}]+\}|%[sd]|\$\{[^}]+\}
PlaceholderMatchEnd(text, p) ==
    IF DelimitedMatchEnd("{", "}", text, p) # 0 THEN DelimitedMatchEnd("{", "}", text, p)
    ELSE IF p + 1 <= Len(text) /\ text[p] = "%" /\ text[p + 1] \in {"s", "d"} THEN p + 2
    ELSE IF p + 1 <= Len(text) /\ text[p] = "$"
         THEN DelimitedMatchEnd("{", "}", text, p + 1)
    ELSE 0

\* the end of the match of pattern that starts at position p of s, 0 when
\* none starts there; a pattern is named by its kind: "literal" for
\* re.escape(text), "capword" for \b[A-Z][a-z]+\b, "number" for
\* \d+(?:[.,]\d+)*, "spaces" for '  +', "tag" for <[^>]+> and "placeholder"
\* for \{[^}]+\}|%[sd]|\$\{[^}]+\}
MatchEnd(pattern, s, p) ==
    CASE pattern.kind = "literal" ->
             LiteralMatchEnd(pattern.text, pattern.ignore_case, s, p)
      [] pattern.kind = "capword" -> CapWordMatchEnd(s, p)
      [] pattern.kind = "number" -> NumberMatchEnd(s, p)
      [] pattern.kind = "spaces" -> SpacesMatchEnd(s, p)
      [] pattern.kind = "tag" -> DelimitedMatchEnd("<", ">", s, p)
      [] pattern.kind = "placeholder" -> PlaceholderMatchEnd(s, p)

\* re.finditer: the matches [start, end) found scanning s from position p;
\* FindIterFrom is given the end e of the match that starts at p (0 if none)
RECURSIVE FindIter(_, _, _)
RECURSIVE FindIterFrom(_, _, _, _)
FindIter(pattern, s, p) ==
    IF p > Len(s) + 1 THEN <<>>
    ELSE FindIterFrom(pattern, s, p, MatchEnd(pattern, s, p))

FindIterFrom(pattern, s, p, e) ==
    IF e = 0 THEN FindIter(pattern, s, p + 1)
    ELSE <<[start |-> p, end |-> e]>> \o FindIter(pattern, s, IF e > p THEN e ELSE p + 1)

\* re.finditer(re.escape(pattern), text), with or without re.IGNORECASE
FindLiteral(pattern, ignore_case, text) ==
    FindIter([kind |-> "literal", text |-> pattern, ignore_case |-> ignore_case], text, 1)

\* [m.group() for m in matches]
RECURSIVE Groups(_, _)
Groups(text, matches) ==
    IF matches = <<>> THEN <<>>
    ELSE << Slice(text, Head(matches).start, Head(matches).end - 1) >>
         \o Groups(text, Tail(matches))

----------------------------------------------------------------------------
(* ConsistencyCheckService: issues *)

\* LexiQ_ConsistencyChecker_Type, in declaration order
CheckerTypes ==
    << "segment_alignment", "glossary_compliance", "capitalization", "punctuation",
       "number_format", "whitespace", "tag_placeholder", "grammar", "spelling",
       "custom_rule" >>

\* text[:n]
Prefix(text, n) == Slice(text, 1, IF Len(text) < n THEN Len(text) ELSE n)

\* text[-n:]
Suffix(text, n) == Slice(text, IF Len(text) < n THEN 1 ELSE Len(text) - n + 1, Len(text))

\* the text of a match
Group(text, m) == Slice(text, m.start, m.end - 1)

\* None where a string is optional; no string, since a string's elements are
\* single characters
None == <<"None">>

\* str(n) for n >= 0
RECURSIVE Str(_)
Str(n) ==
    LET digit == <<"0","1","2","3","4","5","6","7","8","9">>[(n % 10) + 1]
    IN  IF n < 10 THEN <<digit>> ELSE Str(n \div 10) \o <<digit>>

\* a ConsistencyIssue before its id is drawn; positions are Python's (0-based
\* start, exclusive end), confidence is in hundredths.  A message or a
\* suggestion built by an f-string is the sequence of its fixed text and of
\* the values formatted into it.
Issue(type, severity, target_text, start, end, message, suggestions, confidence, auto_fixable, source_text, rule_id) ==
    [ type |-> type, severity |-> severity, target_text |-> target_text,
      start_position |-> start, end_position |-> end, message |-> message,
      suggestions |-> suggestions, confidence |-> confidence,
      auto_fixable |-> auto_fixable, source_text |-> source_text, rule_id |-> rule_id ]

\* an issue spanning the whole target, as most count checks emit
WholeTargetIssue(type, severity, target, message, suggestions, confidence, source_text, rule_id) ==
    Issue(type, severity, Prefix(target, 100), 0, Len(target), message, suggestions,
          confidence, FALSE, source_text, rule_id)

\* an issue on one match of a finditer
MatchIssue(type, severity, target, m, message, suggestions, confidence, auto_fixable, source_text, rule_id) ==
    Issue(type, severity, Group(target, m), m.start - 1, m.end - 1, message, suggestions,
          confidence, auto_fixable, source_text, rule_id)

\* ', '.join(strs)
RECURSIVE Join(_)
Join(strs) ==
    IF strs = <<>> THEN <<>>
    ELSE IF Len(strs) = 1 THEN strs[1]
    ELSE strs[1] \o <<",", " ">> \o Join(Tail(strs))

----------------------------------------------------------------------------
(* ConsistencyCheckService: sentence splitting and segment alignment *)

HasCJK(text) == \E i \in 1..Len(text) : IsCJK(text[i])

\* the lookahead (?=\s+[A-Z]|\s*$) holds after position p, q being the
\* first position after p that holds no whitespace
WesternLookahead(text, p, q) ==
    \/ q > Len(text)
    \/ q > p + 1 /\ IsUpper(text[q])

\* [.!?](?=\s+[A-Z]|\s*$) matches at position p
WesternSplitAt(text, p) ==
    /\ text[p] \in {".", "!", "?"}
    /\ WesternLookahead(text, p, SkipSpaces(text, p + 1))

SplitAt(text, p) ==
    IF HasCJK(text) THEN IsCJKTerminator(text[p]) ELSE WesternSplitAt(text, p)

\* re.split at the positions where the terminator pattern matches, from
\* position p with the piece begun at position from
RECURSIVE SplitFrom(_, _, _)
SplitFrom(text, from, p) ==
    IF p > Len(text) THEN << Slice(text, from, Len(text)) >>
    ELSE IF SplitAt(text, p)
         THEN << Slice(text, from, p - 1) >> \o SplitFrom(text, p + 1, p + 1)
         ELSE SplitFrom(text, from, p + 1)

\* [s.strip() for s in sentences if s.strip()]
RECURSIVE StripAll(_)
StripAll(pieces) ==
    IF pieces = <<>> THEN <<>>
    ELSE IF Strip(Head(pieces)) # <<>>
         THEN << Strip(Head(pieces)) >> \o StripAll(Tail(pieces))
         ELSE StripAll(Tail(pieces))

_split_sentences(text) == StripAll(SplitFrom(text, 1, 1))

\* the issue for ns source sentences against nt target sentences
SegmentCountIssues(source, target, ns, nt) ==
    IF ns # nt
    THEN << WholeTargetIssue("segment_alignment", "major", target,
                << <<"Segment count mismatch">>, Str(ns), Str(nt) >>,
                << << <<"Review segment alignment and ensure all source segments are translated">> >> >>,
                90, Prefix(source, 100), None) >>
    ELSE <<>>

_check_segment_alignment(source, target) ==
    SegmentCountIssues(source, target,
                       Len(_split_sentences(source)), Len(_split_sentences(target)))

----------------------------------------------------------------------------
(* ConsistencyCheckService: glossary, capitalization, punctuation, numbers *)

ForbiddenTermIssue(target, term, m) ==
    MatchIssue("glossary_compliance", "critical", target, m,
        << <<"Forbidden term used">>, term.target >>,
        << << <<"Remove or replace">>, term.target >> >>,
        100, FALSE, term.source, None)

MissingTermIssue(target, term) ==
    WholeTargetIssue("glossary_compliance", "major", target,
        << <<"Glossary term appears fewer times than source term">>,
           term.target, term.source >>,
        << << <<"Ensure all instances are translated as">>, term.source, term.target >> >>,
        85, term.source, None)

\* the issues of a term when the check does not ask whether the source holds it
GlossaryMatchIssues_NoSourceCheck(target, term, source_matches, target_matches) ==
    IF term.forbidden /\ target_matches # <<>>
    THEN [ix \in 1..Len(target_matches) |->
             ForbiddenTermIssue(target, term, target_matches[ix])]
    ELSE IF ~term.forbidden /\ Len(source_matches) > Len(target_matches)
    THEN << MissingTermIssue(target, term) >>
    ELSE <<>>

\* the issues of a term found at source_matches and at target_matches
GlossaryMatchIssues(target, term, source_matches, target_matches) ==
    IF source_matches = <<>> THEN <<>>
    ELSE IF term.forbidden /\ target_matches # <<>>
    THEN [ix \in 1..Len(target_matches) |->
             ForbiddenTermIssue(target, term, target_matches[ix])]
    ELSE IF ~term.forbidden /\ Len(source_matches) > Len(target_matches)
    THEN << MissingTermIssue(target, term) >>
    ELSE <<>>

\* the issues one glossary term contributes
GlossaryTermIssues(source, target, term) ==
    GlossaryMatchIssues(target, term,
        FindLiteral(term.source, ~term.case_sensitive, source),
        FindLiteral(term.target, ~term.case_sensitive, target))

RECURSIVE _check_glossary_compliance(_, _, _)
_check_glossary_compliance(source, target, glossary_terms) ==
    IF glossary_terms = <<>> THEN <<>>
    ELSE GlossaryTermIssues(source, target, Head(glossary_terms))
         \o _check_glossary_compliance(source, target, Tail(glossary_terms))

CapitalizationIssue(target, m, first) ==
    MatchIssue("capitalization", "minor", target, m,
        << <<"Inconsistent capitalization">>, Group(target, m), first >>,
        << <<first>> >>, 70, TRUE, None, None)

\* an issue for each of the matches, first being the spelling they differ from
DifferingIssues(target, later, first) ==
    [ix \in 1..Len(later) |-> CapitalizationIssue(target, later[ix], first)]

\* the issues for the matches that share a lowercased form, when they are not
\* all spelled alike: one for each later match not spelled as the first
CapitalizationGroupIssues(target, positions, first) ==
    IF /\ Len(positions) > 1
       /\ Cardinality({Group(target, positions[i]) : i \in 1..Len(positions)}) > 1
    THEN DifferingIssues(target,
             SelectSeq(Tail(positions), LAMBDA m : Group(target, m) # first), first)
    ELSE <<>>

\* the matches spelled like m but for case
SameWord(target, matches, m) ==
    SelectSeq(matches, LAMBDA n : Lower(Group(target, n)) = Lower(Group(target, m)))

\* the issues of the words starting at position i of the matches, each word
\* being handled where it first occurs
RECURSIVE CapitalizationIssues(_, _, _)
CapitalizationIssues(target, matches, i) ==
    IF i > Len(matches) THEN <<>>
    ELSE (IF SameWord(target, matches, matches[i])[1] = matches[i]
          THEN CapitalizationGroupIssues(target, SameWord(target, matches, matches[i]),
                                         Group(target, matches[i]))
          ELSE <<>>)
         \o CapitalizationIssues(target, matches, i + 1)

_check_capitalization(source, target) ==
    CapitalizationIssues(target, FindIter([kind |-> "capword"], target, 1), 1)

\* [.,;:!?()"'\[\]{}]
PunctuationMarks ==
    {".", ",", ";", ":", "!", "?", "(", ")", "\"", "'", "[", "]", "{", "}"}

PunctuationOf(text) == Range(text) \cap PunctuationMarks

\* the pairs the balance check walks through, in order
BracketPairs == << <<"(", ")">>, <<"[", "]">>, <<"{", "}">>, <<"\"", "\"">> >>

MissingPunctuationIssues(target, missing_punct) ==
    IF missing_punct # {}
    THEN << WholeTargetIssue("punctuation", "minor", target,
                << <<"Missing punctuation types">>, missing_punct >>,
                << << <<"Review if punctuation marks should be included">>,
                      missing_punct >> >>,
                60, None, None) >>
    ELSE <<>>

UnbalancedIssues(target, pair, open_count, close_count) ==
    IF open_count # close_count
    THEN << WholeTargetIssue("punctuation", "major", target,
                << <<"Unbalanced">>, <<pair[1], pair[2]>>, Str(open_count), Str(close_count) >>,
                << << <<"Ensure all have matching">>, <<pair[1]>>, <<pair[2]>> >> >>,
                95, None, None) >>
    ELSE <<>>

RECURSIVE BalanceIssues(_, _)
BalanceIssues(target, pairs) ==
    IF pairs = <<>> THEN <<>>
    ELSE UnbalancedIssues(target, Head(pairs), CountChar(target, Head(pairs)[1]),
                          CountChar(target, Head(pairs)[2]))
         \o BalanceIssues(target, Tail(pairs))

_check_punctuation(source, target) ==
    MissingPunctuationIssues(target, PunctuationOf(source) \ PunctuationOf(target))
    \o BalanceIssues(target, BracketPairs)

NumberCountIssues(target, source_numbers, target_numbers) ==
    IF Len(source_numbers) # Len(target_numbers)
    THEN << WholeTargetIssue("number_format", "major", target,
                << <<"Number count mismatch">>, Str(Len(source_numbers)),
                   Str(Len(target_numbers)) >>,
                << << <<"Verify all numbers are correctly translated">> >> >>,
                90, Join(source_numbers), None) >>
    ELSE <<>>

\* a check that compares the numbers themselves
_check_number_format_ByValue(source, target) ==
    IF Groups(source, FindIter([kind |-> "number"], source, 1))
         # Groups(target, FindIter([kind |-> "number"], target, 1))
    THEN NumberCountIssues(target, <<>>, << <<"0">> >>)
    ELSE <<>>

_check_number_format(source, target) ==
    NumberCountIssues(target, Groups(source, FindIter([kind |-> "number"], source, 1)),
                      Groups(target, FindIter([kind |-> "number"], target, 1)))

----------------------------------------------------------------------------
(* ConsistencyCheckService: whitespace, tags and placeholders, custom rules *)

StartsWith(text, c) == text # <<>> /\ text[1] = c

EndsWith(text, c) == text # <<>> /\ text[Len(text)] = c

LeadingWhitespaceIssues(target) ==
    IF StartsWith(target, " ") \/ StartsWith(target, "\t")
    THEN << Issue("whitespace", "minor", Prefix(target, 10), 0, 1,
                << <<"Leading whitespace detected">> >>,
                << << <<"Remove leading whitespace">> >> >>, 100, TRUE, None, None) >>
    ELSE <<>>

TrailingWhitespaceIssues(target) ==
    IF EndsWith(target, " ") \/ EndsWith(target, "\t")
    THEN << Issue("whitespace", "minor", Suffix(target, 10), Len(target) - 1, Len(target),
                << <<"Trailing whitespace detected">> >>,
                << << <<"Remove trailing whitespace">> >> >>, 100, TRUE, None, None) >>
    ELSE <<>>

SpacesIssue(target, m) ==
    MatchIssue("whitespace", "minor", target, m,
        << <<"Multiple consecutive spaces">>, Str(m.end - m.start) >>,
        << << <<" ">> >> >>, 95, TRUE, None, None)

SpacesIssues(target, matches) ==
    [ix \in 1..Len(matches) |-> SpacesIssue(target, matches[ix])]

_check_whitespace(target) ==
    LeadingWhitespaceIssues(target)
    \o TrailingWhitespaceIssues(target)
    \o SpacesIssues(target, FindIter([kind |-> "spaces"], target, 1))

TagCountIssues(target, source_tags, target_tags) ==
    IF Len(source_tags) # Len(target_tags)
    THEN << WholeTargetIssue("tag_placeholder", "critical", target,
                << <<"Tag count mismatch">>, Str(Len(source_tags)), Str(Len(target_tags)) >>,
                << << <<"Ensure all tags from source are present in target">> >> >>,
                100, Join(source_tags), None) >>
    ELSE <<>>

PlaceholderCountIssues(target, source_placeholders, target_placeholders) ==
    IF Len(source_placeholders) # Len(target_placeholders)
    THEN << WholeTargetIssue("tag_placeholder", "critical", target,
                << <<"Placeholder count mismatch">>, Str(Len(source_placeholders)),
                   Str(Len(target_placeholders)) >>,
                << << <<"Ensure all placeholders from source are present in target">> >> >>,
                100, Join(source_placeholders), None) >>
    ELSE <<>>

\* a check that looks at the placeholders only when the tag counts agree
_check_tags_placeholders_TagsFirst(source, target) ==
    IF TagCountIssues(target, Groups(source, FindIter([kind |-> "tag"], source, 1)),
                      Groups(target, FindIter([kind |-> "tag"], target, 1))) # <<>>
    THEN TagCountIssues(target, Groups(source, FindIter([kind |-> "tag"], source, 1)),
                        Groups(target, FindIter([kind |-> "tag"], target, 1)))
    ELSE PlaceholderCountIssues(target,
             Groups(source, FindIter([kind |-> "placeholder"], source, 1)),
             Groups(target, FindIter([kind |-> "placeholder"], target, 1)))

_check_tags_placeholders(source, target) ==
    TagCountIssues(target, Groups(source, FindIter([kind |-> "tag"], source, 1)),
                   Groups(target, FindIter([kind |-> "tag"], target, 1)))
    \o PlaceholderCountIssues(target,
           Groups(source, FindIter([kind |-> "placeholder"], source, 1)),
           Groups(target, FindIter([kind |-> "placeholder"], target, 1)))

\* A rule's pattern is a regular expression.  The patterns considered are the
\* ones made of characters that stand for themselves, which match as a
\* literal does, and the ones re.compile rejects, here an unclosed group.
RegexCompiles(pattern) == "(" \notin Range(pattern)

RuleUsesPattern(rule) == rule.enabled /\ rule.type \in {"regex", "forbidden", "required"}

\* re.finditer / re.search raise re.error for an enabled rule's pattern
CustomRulesRaise(custom_rules) ==
    \E i \in 1..Len(custom_rules) :
        RuleUsesPattern(custom_rules[i]) /\ ~RegexCompiles(custom_rules[i].pattern)

\* bool(s) of an optional string
Truthy(s) == s # None /\ s # <<>>

RegexRuleIssue(target, rule, m) ==
    MatchIssue("custom_rule", rule.severity, target, m,
        << <<"Custom rule violation">>, rule.name >>,
        IF Truthy(rule.replacement) THEN << <<rule.replacement>> >> ELSE <<>>,
        80, Truthy(rule.replacement), None, rule.id)

ForbiddenRuleIssue(target, rule, m) ==
    MatchIssue("custom_rule", "critical", target, m,
        << <<"Forbidden term detected">>, rule.name >>,
        << << <<"Remove or replace this term">> >> >>, 100, FALSE, None, rule.id)

RequiredRuleIssue(target, rule) ==
    WholeTargetIssue("custom_rule", rule.severity, target,
        << <<"Required term missing">>, rule.name >>,
        << << <<"Add required term matching pattern">>, rule.pattern >> >>,
        90, None, rule.id)

\* the issues of a rule whose pattern matches at matches
RuleMatchIssues(target, rule, matches) ==
    IF rule.type = "regex"
    THEN [ix \in 1..Len(matches) |-> RegexRuleIssue(target, rule, matches[ix])]
    ELSE IF rule.type = "forbidden"
    THEN [ix \in 1..Len(matches) |-> ForbiddenRuleIssue(target, rule, matches[ix])]
    ELSE IF rule.type = "required" /\ matches = <<>>
    THEN << RequiredRuleIssue(target, rule) >>
    ELSE <<>>

\* the issues one custom rule contributes: 'regex' matches as written, the
\* other types with re.IGNORECASE
CustomRuleIssues(target, rule) ==
    IF ~RuleUsesPattern(rule) THEN <<>>
    ELSE RuleMatchIssues(target, rule,
             FindLiteral(rule.pattern, rule.type # "regex", target))

RECURSIVE _check_custom_rules(_, _)
_check_custom_rules(target, custom_rules) ==
    IF custom_rules = <<>> THEN <<>>
    ELSE CustomRuleIssues(target, Head(custom_rules))
         \o _check_custom_rules(target, Tail(custom_rules))

----------------------------------------------------------------------------
(* ConsistencyCheckService: statistics, cache key, the checks of a call *)

\* sum(1 for i in issues if i.field == value)
CountIssues(issues, field, value) ==
    Len(SelectSeq(issues, LAMBDA i : i[field] = value))

RECURSIVE SumConfidence(_)
SumConfidence(issues) ==
    IF issues = <<>> THEN 0 ELSE Head(issues).confidence + SumConfidence(Tail(issues))

\* the score without the floor at 0
QualityScore_Unclamped(total, weighted_issues) ==
    IF total = 0 THEN 100 ELSE 100 - weighted_issues

\* 100.0 for no issue, else max(0, 100 - weighted_issues)
QualityScore(total, weighted_issues) ==
    IF total = 0 THEN 100
    ELSE IF 100 - weighted_issues < 0 THEN 0 ELSE 100 - weighted_issues

\* quality_score is in points, average_confidence in 1/10000
_calculate_statistics(issues) ==
    LET total == Len(issues)
        critical == CountIssues(issues, "severity", "critical")
        major == CountIssues(issues, "severity", "major")
        minor == CountIssues(issues, "severity", "minor")
        info == CountIssues(issues, "severity", "info")
        weighted_issues == (critical * 10) + (major * 5) + (minor * 2) + (info * 1)
    IN  [ total_issues |-> total,
          critical_issues |-> critical,
          major_issues |-> major,
          minor_issues |-> minor,
          info_issues |-> info,
          issues_by_type |->
              [t \in Range(CheckerTypes) |-> CountIssues(issues, "type", t)],
          quality_score |-> QualityScore(total, weighted_issues),
          average_confidence |->
              IF total > 0 THEN (SumConfidence(issues) * 100) \div total ELSE 10000 ]

generate_cache_key(source, target, language_pair) ==
    Md5(source \o <<"|">> \o target \o <<"|">> \o language_pair)

\* the key check_consistency computes for a call
RequestKey(req) ==
    generate_cache_key(req.source_text, req.translation_text,
                       req.source_language \o <<"-">> \o req.target_language)

\* the check types a call runs: all of them when check_types is None
TypesToRun(check_types) ==
    IF check_types = None THEN Range(CheckerTypes) ELSE Range(check_types)

\* _generate_issue_id for each issue in order of creation: uuid4 values,
\* modelled as identifiers never drawn before
WithIds(issues, next_id) ==
    [i \in 1..Len(issues) |->
        [id |-> next_id + i - 1] @@ issues[i]]

\* the issues of the checks a call runs, in the order the code runs them
RunChecks(req) ==
    LET types == TypesToRun(req.check_types)
        source == req.source_text
        target == req.translation_text
        when(type, issues) == IF type \in types THEN issues ELSE <<>>
    IN  when("segment_alignment", _check_segment_alignment(source, target))
        \o (IF req.glossary_terms # <<>>
            THEN when("glossary_compliance",
                      _check_glossary_compliance(source, target, req.glossary_terms))
            ELSE <<>>)
        \o when("capitalization", _check_capitalization(source, target))
        \o when("punctuation", _check_punctuation(source, target))
        \o when("number_format", _check_number_format(source, target))
        \o when("whitespace", _check_whitespace(target))
        \o when("tag_placeholder", _check_tags_placeholders(source, target))
        \o (IF req.custom_rules # <<>>
            THEN when("custom_rule", _check_custom_rules(target, req.custom_rules))
            ELSE <<>>)

\* the call raises: re.error leaves _check_custom_rules and nothing catches it
ChecksRaise(req) ==
    /\ "custom_rule" \in TypesToRun(req.check_types)
    /\ req.custom_rules # <<>>
    /\ CustomRulesRaise(req.custom_rules)

----------------------------------------------------------------------------
(* ConsistencyCheckService: the calls made *)

\* (source, target, source language, target language) of the calls made
Contents ==
    { << <<"A","b"," ","1">>, <<" ","a","b">>, <<"e","n">>, <<"f","r">> >>,
      << <<"A","b"," ","1">>, <<"a","b"," ","1">>, <<"e","n">>, <<"d","e">> >> }

\* glossary_terms: absent, or one required translation the targets lack
GlossaryLists ==
    { <<>>,
      << [id |-> <<"g","1">>, source |-> <<"a","b">>, target |-> <<"c","d">>,
          case_sensitive |-> FALSE, forbidden |-> FALSE] >> }

\* custom_rules: absent, a forbidden word the targets hold, or a pattern that
\* is no regular expression
RuleLists ==
    { <<>>,
      << [id |-> <<"r","1">>, name |-> <<"n","o"," ","a","b">>, type |-> "forbidden",
          pattern |-> <<"a","b">>, replacement |-> None, severity |-> "minor",
          enabled |-> TRUE] >>,
      << [id |-> <<"r","2">>, name |-> <<"b","a","d">>, type |-> "regex",
          pattern |-> <<"(">>, replacement |-> None, severity |-> "minor",
          enabled |-> TRUE] >> }

CheckTypeLists == { None, <<"number_format">>, <<"whitespace", "custom_rule">> }

Requests ==
    { [ source_text |-> c[1], translation_text |-> c[2], source_language |-> c[3],
        target_language |-> c[4], glossary_terms |-> g, custom_rules |-> r,
        check_types |-> t, enable_cache |-> e ] :
      c \in Contents, g \in GlossaryLists, r \in RuleLists, t \in CheckTypeLists,
      e \in BOOLEAN }

----------------------------------------------------------------------------
(* ConsistencyCheckService: check_consistency *)

\* a lookup that finds nothing, whatever the cache holds
Stored_Never(c, key) == FALSE

\* cache_key in self.cache
Stored(c, key) == key \in DOMAIN c

\* return cached['issues'], cached['statistics']
CacheHit(c, next_id, cache_key) ==
    [ raised |-> FALSE, hit |-> TRUE, issues |-> c[cache_key].issues,
      statistics |-> c[cache_key].statistics, cache |-> c, next_id |-> next_id ]

\* re.error leaves check_consistency: nothing is returned or stored
Raised(c, next_id) ==
    [ raised |-> TRUE, hit |-> FALSE, issues |-> <<>>,
      statistics |-> _calculate_statistics(<<>>), cache |-> c, next_id |-> next_id ]

\* self.cache[cache_key] = {'issues': issues, 'statistics': statistics}
CacheStore(c, cache_key, issues, statistics) ==
    [k \in DOMAIN c \cup {cache_key} |->
        IF k = cache_key THEN [issues |-> issues, statistics |-> statistics] ELSE c[k]]

\* the checks have run: store the pair whether or not caching is enabled
Returned_AlwaysStores(c, next_id, req, issues, statistics) ==
    [ raised |-> FALSE, hit |-> FALSE, issues |-> issues, statistics |-> statistics,
      cache |-> CacheStore(c, RequestKey(req), issues, statistics),
      next_id |-> next_id + Len(issues) ]

\* the checks have run: store the pair if caching is enabled, and return it
Returned(c, next_id, req, issues, statistics) ==
    [ raised |-> FALSE, hit |-> FALSE, issues |-> issues, statistics |-> statistics,
      cache |-> IF req.enable_cache
                THEN CacheStore(c, RequestKey(req), issues, statistics)
                ELSE c,
      next_id |-> next_id + Len(issues) ]

Computed(c, next_id, req, issues) ==
    Returned(c, next_id, req, issues, _calculate_statistics(issues))

\* check_consistency on a service whose cache is c: what the call returns and
\* the cache and identifier supply it leaves.  An absent or empty list of
\* glossary terms or rules is <<>>: the code only tests its truth.
CheckConsistencyResult(c, next_id, req) ==
    IF req.enable_cache /\ Stored(c, RequestKey(req))
    THEN CacheHit(c, next_id, RequestKey(req))
    ELSE IF ChecksRaise(req)
    THEN Raised(c, next_id)
    ELSE Computed(c, next_id, req, WithIds(RunChecks(req), next_id))

----------------------------------------------------------------------------
(* ConsistencyCheckService: calls *)

MaxIssueIds == 3     \* issue identifiers a behaviour may draw

\* check_consistency
CheckConsistency(req) ==
    \E r \in {CheckConsistencyResult(ccCache, nextId, req)} :
        /\ r.next_id <= MaxIssueIds
        /\ ccCache' = r.cache
        /\ nextId' = r.next_id
        /\ ccRet' = [op |-> "check", hit |-> r.hit, raised |-> r.raised]
        /\ UNCHANGED <<trackerVars, engineVars, callVars, detectorVars>>

Check == \E req \in Requests : CheckConsistency(req)

InitChecker ==
    /\ supabase = FALSE
    /\ cacheSvc = FALSE
    /\ store = <<>>
    /\ cache = [k \in CacheKeys |-> NoEntry]
    /\ now = 0
    /\ tasks = IdleTasks
    /\ ret = NoRet
    /\ NewChecker
    /\ NewEngine
    /\ NoCall
    /\ NewDetector

NextChecker == Check

SpecChecker == InitChecker /\ [][NextChecker]_vars


----------------------------------------------------------------------------
(* ConsistencyCheckService: properties *)

\* issues without their opaque ids
WithoutIds(issues) ==
    [i \in 1..Len(issues) |->
        [f \in (DOMAIN issues[i]) \ {"id"} |-> issues[i][f]]]

SameContent(q1, q2) ==
    /\ q1.source_text = q2.source_text
    /\ q1.translation_text = q2.translation_text
    /\ q1.source_language = q2.source_language
    /\ q1.target_language = q2.target_language

\* C3: with caching enabled, every issue a call returns has a category among
\* the check_types passed to that call (all categories when it passes none)
C3_IssuesWithinRequestedTypes ==
    \A req \in Requests :
        req.enable_cache =>
            LET r == CheckConsistencyResult(ccCache, nextId, req)
            IN  ~r.raised =>
                    \A i \in 1..Len(r.issues) :
                        r.issues[i].type \in TypesToRun(req.check_types)

\* C4: what a call returns (issue ids apart) depends on its inputs only: it is
\* what the same call returns on a service that has served no call before
C4_ResultDependsOnInputsOnly ==
    \A req \in Requests :
        LET r == CheckConsistencyResult(ccCache, nextId, req)
            alone == CheckConsistencyResult(<<>>, 0, req)
        IN  /\ r.raised = alone.raised
            /\ WithoutIds(r.issues) = WithoutIds(alone.issues)
            /\ r.statistics = alone.statistics

\* C5: after a call with caching enabled has returned, a second call with
\* caching enabled and the same source, target and language pair is a cache
\* hit: it returns the pair the first call returned and stored, and leaves
\* the cache as the first call left it
C5_SecondCallReturnsStoredPair ==
    \A q1 \in Requests :
        LET r1 == CheckConsistencyResult(ccCache, nextId, q1)
        IN  (q1.enable_cache /\ ~r1.raised) =>
                \A q2 \in Requests :
                    (q2.enable_cache /\ SameContent(q1, q2)) =>
                        LET r2 == CheckConsistencyResult(r1.cache, r1.next_id, q2)
                        IN  /\ ~r2.raised
                            /\ r2.issues = r1.issues
                            /\ r2.statistics = r1.statistics
                            /\ r2.cache = r1.cache
                            /\ r1.cache[RequestKey(q1)] =
                                   [issues |-> r1.issues, statistics |-> r1.statistics]

\* C5 witness: a call has just been answered from the cache, with a stored
\* pair that holds issues
C5_Witness ==
    /\ ccRet = [op |-> "check", hit |-> TRUE, raised |-> FALSE]
    /\ \E k \in DOMAIN ccCache : Len(ccCache[k].issues) >= 2


\* a later cache-enabled call with the content of req, on the service as the
\* call r left it, runs the checks again
LaterCallRecomputes(req, r) ==
    \A q2 \in Requests :
        (q2.enable_cache /\ SameContent(req, q2)) =>
            ~CheckConsistencyResult(r.cache, r.next_id, q2).hit

CacheGainsOnlyOnSuccess(c, req, r) ==
    /\ r.cache # c => (req.enable_cache /\ ~r.raised /\ ~r.hit)
    /\ (r.raised \/ ~req.enable_cache) =>
           /\ r.cache = c
           /\ RequestKey(req) \notin DOMAIN c => LaterCallRecomputes(req, r)

C16_CheckConsistencyNeverFails ==
    \A req \in Requests : ~CheckConsistencyResult(ccCache, nextId, req).raised

----------------------------------------------------------------------------
(* EnhancedLexiQEngine: keyword tables *)

\* self.domain_keywords: the domains in order, each with its keywords in order
domain_keywords ==
    << [ domain |-> <<"t","e","c","h","n","o","l","o","g","y">>,
         keywords |-> << <<"i","m","p","l","e","m","e","n","t","a","t","i","o","n">>,
                         <<"d","e","p","l","o","y","m","e","n","t">>,
                         <<"f","r","a","m","e","w","o","r","k">>,
                         <<"a","r","c","h","i","t","e","c","t","u","r","e">>,
                         <<"d","a","t","a","b","a","s","e">>, <<"A","P","I">>,
                         <<"i","n","t","e","r","f","a","c","e">>,
                         <<"a","u","t","h","e","n","t","i","c","a","t","i","o","n">>,
                         <<"c","o","n","f","i","g","u","r","a","t","i","o","n">>,
                         <<"o","p","t","i","m","i","z","a","t","i","o","n">>,
                         <<"v","a","l","i","d","a","t","i","o","n">>,
                         <<"m","o","d","u","l","e">>,
                         <<"c","o","m","p","o","n","e","n","t">> >> ],
       [ domain |-> <<"m","e","d","i","c","a","l">>,
         keywords |-> << <<"t","r","e","a","t","m","e","n","t">>,
                         <<"d","i","a","g","n","o","s","i","s">>,
                         <<"m","e","d","i","c","a","t","i","o","n">>,
                         <<"p","r","o","c","e","d","u","r","e">>,
                         <<"s","y","m","p","t","o","m">>,
                         <<"p","a","t","i","e","n","t">>,
                         <<"p","h","y","s","i","c","i","a","n">>,
                         <<"e","x","a","m","i","n","a","t","i","o","n">>,
                         <<"t","h","e","r","a","p","y">>,
                         <<"i","n","t","e","r","v","e","n","t","i","o","n">> >> ],
       [ domain |-> <<"l","e","g","a","l">>,
         keywords |-> << <<"c","o","n","t","r","a","c","t">>,
                         <<"l","i","t","i","g","a","t","i","o","n">>,
                         <<"c","o","m","p","l","i","a","n","c","e">>,
                         <<"r","e","g","u","l","a","t","i","o","n">>,
                         <<"l","i","a","b","i","l","i","t","y">>,
                         <<"j","u","r","i","s","d","i","c","t","i","o","n">>,
                         <<"p","l","a","i","n","t","i","f","f">>,
                         <<"d","e","f","e","n","d","a","n","t">>,
                         <<"s","t","a","t","u","t","e">>,
                         <<"o","r","d","i","n","a","n","c","e">> >> ],
       [ domain |-> <<"f","i","n","a","n","c","e">>,
         keywords |-> << <<"i","n","v","e","s","t","m","e","n","t">>,
                         <<"r","e","v","e","n","u","e">>,
                         <<"e","x","p","e","n","d","i","t","u","r","e">>,
                         <<"p","r","o","f","i","t">>, <<"a","s","s","e","t">>,
                         <<"l","i","a","b","i","l","i","t","y">>,
                         <<"t","r","a","n","s","a","c","t","i","o","n">>,
                         <<"p","o","r","t","f","o","l","i","o">>,
                         <<"c","a","p","i","t","a","l">>, <<"e","q","u","i","t","y">> >> ],
       [ domain |-> <<"m","a","r","k","e","t","i","n","g">>,
         keywords |-> << <<"c","a","m","p","a","i","g","n">>,
                         <<"e","n","g","a","g","e","m","e","n","t">>,
                         <<"c","o","n","v","e","r","s","i","o","n">>,
                         <<"a","u","d","i","e","n","c","e">>, <<"b","r","a","n","d">>,
                         <<"c","o","n","t","e","n","t">>,
                         <<"s","t","r","a","t","e","g","y">>,
                         <<"a","n","a","l","y","t","i","c","s">>, <<"R","O","I">>,
                         <<"d","e","m","o","g","r","a","p","h","i","c">> >> ] >>

\* self.semantic_patterns: the semantic types in order, each with its patterns
semantic_patterns ==
    << [ sem_type |-> "technical_term",
         patterns |-> << <<"s","y","s","t","e","m">>, <<"p","r","o","c","e","s","s">>,
                         <<"m","e","t","h","o","d">>,
                         <<"t","e","c","h","n","i","q","u","e">>,
                         <<"p","r","o","t","o","c","o","l">> >> ],
       [ sem_type |-> "action_verb",
         patterns |-> << <<"i","m","p","l","e","m","e","n","t">>,
                         <<"e","x","e","c","u","t","e">>, <<"d","e","p","l","o","y">>,
                         <<"c","o","n","f","i","g","u","r","e">>,
                         <<"o","p","t","i","m","i","z","e">> >> ],
       [ sem_type |-> "entity",
         patterns |-> << <<"u","s","e","r">>, <<"c","l","i","e","n","t">>,
                         <<"s","e","r","v","e","r">>,
                         <<"d","a","t","a","b","a","s","e">>,
                         <<"a","p","p","l","i","c","a","t","i","o","n">> >> ],
       [ sem_type |-> "attribute",
         patterns |-> << <<"s","e","c","u","r","e">>,
                         <<"e","f","f","i","c","i","e","n","t">>,
                         <<"s","c","a","l","a","b","l","e">>,
                         <<"r","o","b","u","s","t">>,
                         <<"r","e","l","i","a","b","l","e">> >> ],
       [ sem_type |-> "measurement",
         patterns |-> << <<"p","e","r","f","o","r","m","a","n","c","e">>,
                         <<"t","h","r","o","u","g","h","p","u","t">>,
                         <<"l","a","t","e","n","c","y">>,
                         <<"c","a","p","a","c","i","t","y">>, <<"l","o","a","d">> >> ] >>

----------------------------------------------------------------------------
(* EnhancedLexiQEngine: strings and frames *)

\* needle in hay
Contains(hay, needle) ==
    \E i \in 1..(Len(hay) - Len(needle) + 1) : SubSeq(hay, i, i + Len(needle) - 1) = needle

\* first position >= p that holds whitespace (Len(s) + 1 if none)
RECURSIVE SkipUntilSpace(_, _)
SkipUntilSpace(s, p) ==
    IF p <= Len(s) /\ ~IsSpace(s[p]) THEN SkipUntilSpace(s, p + 1) ELSE p

\* s.split(): the maximal runs of characters that are not whitespace, from
\* position p
RECURSIVE SplitWords(_, _)
SplitWords(s, p) ==
    IF SkipSpaces(s, p) > Len(s) THEN <<>>
    ELSE << Slice(s, SkipSpaces(s, p), SkipUntilSpace(s, SkipSpaces(s, p)) - 1) >>
         \o SplitWords(s, SkipUntilSpace(s, SkipSpaces(s, p)))

\* a missing cell of the frame (NaN): no string, and equal to no string
NaN == <<"NaN">>

\* Series.str.lower() on one cell: a missing cell stays missing
StrLower(cell) == IF cell = NaN THEN NaN ELSE Lower(cell)

\* the cells of a column
Column(df, col) == {df[i][col] : i \in 1..Len(df)}

\* Series.str raises AttributeError on a column that holds no string, which
\* is a float64 column in a frame built from its data
StrAccessorRaises(df, col) == \A cell \in Column(df, col) : cell = NaN


----------------------------------------------------------------------------
(* EnhancedLexiQEngine: the three tiers *)

\* a TermValidationResult; confidence is in 1/10000, None is the Python None
TermValidationResult(term, is_valid, confidence, fallback_tier, recommended_term, semantic_type, domain_match, language_match) ==
    [ outcome |-> "result", term |-> term, is_valid |-> is_valid,
      confidence |-> confidence, fallback_tier |-> fallback_tier,
      recommended_term |-> recommended_term, semantic_type |-> semantic_type,
      domain_match |-> domain_match, language_match |-> language_match ]

\* a tier returns None
NoResult == [outcome |-> "none"]

\* an exception leaves the call (AttributeError on a missing cell)
Raises == [outcome |-> "raised"]

\* the rows of the frame selected by a boolean mask
TermMatches(row, term_lower) == StrLower(row.term) = term_lower

DomainMatches(row, domain) == StrLower(row.domain) = Lower(domain)

LanguageMatches(row, language) == StrLower(row.language) = Lower(language)

ExactRows(df, term_lower, domain, language) ==
    SelectSeq(df, LAMBDA row : /\ TermMatches(row, term_lower)
                               /\ DomainMatches(row, domain)
                               /\ LanguageMatches(row, language))

FuzzyRows(df, term_lower, domain, language) ==
    SelectSeq(df, LAMBDA row : /\ TermMatches(row, term_lower)
                               /\ \/ DomainMatches(row, domain)
                                  \/ LanguageMatches(row, language))

\* the result for the first fuzzy row: row['domain'].lower() and
\* row['language'].lower() raise AttributeError on a missing cell
FuzzyResult(term, domain, language, row) ==
    IF row.domain = NaN \/ row.language = NaN THEN Raises
    ELSE TermValidationResult(term, TRUE, 8000, "tier_1_dataframe", None,
             row.semantic_type, Lower(row.domain) = Lower(domain),
             Lower(row.language) = Lower(language))

\* the lookup, given the rows the two masks select
Tier1Result(term, domain, language, exact_match, fuzzy_match) ==
    IF exact_match # <<>>
    THEN TermValidationResult(term, TRUE, 10000, "tier_1_dataframe", None,
             exact_match[1].semantic_type, TRUE, TRUE)
    ELSE IF fuzzy_match # <<>>
    THEN FuzzyResult(term, domain, language, fuzzy_match[1])
    ELSE NoResult

\* _tier1_dataframe_lookup on a frame that has the columns term, domain and
\* language
_tier1_dataframe_lookup(df, term, domain, language) ==
    IF df = <<>> THEN NoResult
    ELSE IF \E col \in {"term", "domain", "language"} : StrAccessorRaises(df, col)
    THEN Raises
    ELSE Tier1Result(term, domain, language,
             ExactRows(df, Strip(Lower(term)), domain, language),
             FuzzyRows(df, Strip(Lower(term)), domain, language))

\* self.domain_keywords.get(domain.lower(), [])
RECURSIVE KeywordsOf(_, _)
KeywordsOf(table, domain_lower) ==
    IF table = <<>> THEN <<>>
    ELSE IF Head(table).domain = domain_lower THEN Head(table).keywords
    ELSE KeywordsOf(Tail(table), domain_lower)

\* the keywords found in the lowercased context, in order
ContextKeywords(keywords, context_lower) ==
    SelectSeq(keywords, LAMBDA keyword : Contains(context_lower, keyword))

PatternMatches(pattern, term_lower) ==
    Contains(term_lower, pattern) \/ Contains(pattern, term_lower)

\* the first semantic type one of whose patterns matches, 'unknown' if none
RECURSIVE SemanticTypeOf(_, _)
SemanticTypeOf(table, term_lower) ==
    IF table = <<>> THEN "unknown"
    ELSE IF \E i \in 1..Len(Head(table).patterns) :
                PatternMatches(Head(table).patterns[i], term_lower)
    THEN Head(table).sem_type
    ELSE SemanticTypeOf(Tail(table), term_lower)

Min(a, b) == IF a < b THEN a ELSE b

Max(a, b) == IF a > b THEN a ELSE b

\* the SemanticInferenceResult for the keywords of the domain, those found in
\* the context and the semantic type; confidence and relevance in 1/10000
SemanticInferenceResult(semantic_type, context_keywords, domain_keywords_list) ==
    [ semantic_type |-> semantic_type,
      confidence |-> Min((IF semantic_type = "unknown" THEN 5000 ELSE 8000)
                         + 1000 * Len(context_keywords), 10000),
      context_keywords |-> context_keywords,
      domain_relevance |->
          Min((Len(context_keywords) * 20000) \div Max(Len(domain_keywords_list), 1),
              10000) ]

_infer_semantic_type(term, domain, context) ==
    SemanticInferenceResult(
        SemanticTypeOf(semantic_patterns, Lower(term)),
        ContextKeywords(KeywordsOf(domain_keywords, Lower(domain)), Lower(context)),
        KeywordsOf(domain_keywords, Lower(domain)))

\* the tier-2 result for an inference
Tier2Result(term, semantic_result) ==
    IF semantic_result.confidence < 6000 THEN NoResult
    ELSE TermValidationResult(term, semantic_result.domain_relevance >= 5000,
             semantic_result.confidence, "tier_2_semantic", None,
             semantic_result.semantic_type,
             semantic_result.domain_relevance >= 5000, TRUE)

_tier2_semantic_inference(term, domain, language, context) ==
    Tier2Result(term, _infer_semantic_type(term, domain, context))

\* the suggestions of the pool for the domain and language, or for the
\* language alone when there is none for both
DomainSuggestions(pool, domain, language) ==
    SelectSeq(pool, LAMBDA s : /\ Lower(s.domain) = Lower(domain)
                               /\ Lower(s.language) = Lower(language))

LanguageSuggestions(pool, language) ==
    SelectSeq(pool, LAMBDA s : Lower(s.language) = Lower(language))

\* the filter without the relaxation to the language alone
FilteredSuggestions_DomainOnly(pool, domain, language) ==
    DomainSuggestions(pool, domain, language)

FilteredSuggestions(pool, domain, language) ==
    IF DomainSuggestions(pool, domain, language) # <<>>
    THEN DomainSuggestions(pool, domain, language)
    ELSE LanguageSuggestions(pool, language)

\* shared words over the size of the larger word set, in 1/10000; 0 when no
\* word is shared
Similarity(term_words, suggestion_words) ==
    IF term_words \cap suggestion_words = {} THEN 0
    ELSE (Cardinality(term_words \cap suggestion_words) * 10000)
         \div Max(Cardinality(term_words), Cardinality(suggestion_words))

WordsOf(s) == Range(SplitWords(Lower(s), 1))

\* the loop over the filtered suggestions from position i: the best match so
\* far (0 for None) and its score
RECURSIVE BestMatch(_, _, _, _, _)
BestMatch(suggestions, term_words, i, best_match, best_score) ==
    IF i > Len(suggestions) THEN [match |-> best_match, score |-> best_score]
    ELSE IF Similarity(term_words, WordsOf(suggestions[i].term)) > best_score
    THEN BestMatch(suggestions, term_words, i + 1, i,
                   Similarity(term_words, WordsOf(suggestions[i].term)))
    ELSE BestMatch(suggestions, term_words, i + 1, best_match, best_score)

\* the tier-3 result for the best match found
Tier3Result(term, domain, suggestions, best) ==
    IF best.match # 0 /\ best.score >= 3000
    THEN TermValidationResult(term, FALSE, best.score, "tier_3_auto_recommend",
             suggestions[best.match].term, suggestions[best.match].semantic_type,
             Lower(suggestions[best.match].domain) = Lower(domain), TRUE)
    ELSE TermValidationResult(term, FALSE, 0, "tier_3_auto_recommend", None, None,
             FALSE, TRUE)

Tier3Over(term, domain, suggestions) ==
    Tier3Result(term, domain, suggestions,
                BestMatch(suggestions, WordsOf(term), 1, 0, 0))

_tier3_auto_recommend(pool, term, domain, language, context) ==
    Tier3Over(term, domain, FilteredSuggestions(pool, domain, language))

\* validate_term once tier 2 has answered
AfterTier2(pool, q, tier2_result) ==
    IF tier2_result.outcome = "result" /\ tier2_result.confidence >= 6000
    THEN tier2_result
    ELSE _tier3_auto_recommend(pool, q.term, q.domain, q.language, q.context)

\* validate_term once tier 1 has answered
AfterTier1(pool, q, tier1_result) ==
    IF tier1_result.outcome # "none" THEN tier1_result
    ELSE AfterTier2(pool, q,
             _tier2_semantic_inference(q.term, q.domain, q.language, q.context))

\* validate_term on an engine with the frame df and the pool
validate_term(df, pool, q) ==
    AfterTier1(pool, q, _tier1_dataframe_lookup(df, q.term, q.domain, q.language))


----------------------------------------------------------------------------
(* EnhancedLexiQEngine: the frames, pools and queries of the calls made *)

\* rows of a glossary frame as read_csv builds them; a blank cell is NaN
GlossaryRows ==
    { [term |-> <<"A","P","I">>, domain |-> <<"T","e","c","h","n","o","l","o","g","y">>, language |-> <<"e","n">>, semantic_type |-> "entity"],
      [term |-> <<"a","p","i">>, domain |-> <<"l","e","g","a","l">>, language |-> <<"f","r">>, semantic_type |-> None],
      [term |-> <<"a","p","i">>, domain |-> NaN, language |-> <<"e","n">>, semantic_type |-> None] }

\* entries of the suggestion pool
Suggestions ==
    { [term |-> <<"d","a","t","a"," ","s","t","r","e","a","m">>, domain |-> <<"t","e","c","h","n","o","l","o","g","y">>, language |-> <<"e","n">>, semantic_type |-> "entity"],
      [term |-> <<"a","p","i"," ","g","a","t","e","w","a","y"," ","h","u","b"," ","s","e","r","v","i","c","e">>, domain |-> <<"l","e","g","a","l">>, language |-> <<"e","n">>, semantic_type |-> "technical_term"] }

\* the sequences over S of length at most n
SeqsUpTo(S, n) == UNION {[1..k -> S] : k \in 0..n}

MaxRows == 2

MaxPool == 2

Frames == SeqsUpTo(GlossaryRows, MaxRows)

\* the arguments of validate_term
Queries ==
    [ term : {<<"a","p","i">>, <<" ","A","P","I">>, <<"d","a","t","a"," ","f","l","o","w">>, <<>>},
      domain : {<<"t","e","c","h","n","o","l","o","g","y">>, <<"L","e","g","a","l">>, <<>>},
      language : {<<"e","n">>, <<"f","r">>},
      context : {<<>>, <<"t","h","e"," ","d","a","t","a","b","a","s","e">>,
                 <<"A","P","I"," ","m","o","d","u","l","e"," ","d","a","t","a","b","a","s","e"," ","i","n","t","e","r","f","a","c","e"," ","c","o","m","p","o","n","e","n","t">>} ]

----------------------------------------------------------------------------
(* EnhancedLexiQEngine: calls *)

\* update_glossary_dataframe(new_df)
UpdateGlossaryDataframe(new_df) ==
    /\ glossary_df' = new_df
    /\ engRet' = [op |-> "update_glossary_dataframe"]
    /\ UNCHANGED <<trackerVars, checkerVars, callVars, detectorVars, suggestion_pool>>

\* add_to_suggestion_pool(suggestions)
AddToSuggestionPool(suggestions) ==
    /\ Len(suggestion_pool) + Len(suggestions) <= MaxPool
    /\ suggestion_pool' = suggestion_pool \o suggestions
    /\ engRet' = [op |-> "add_to_suggestion_pool"]
    /\ UNCHANGED <<trackerVars, checkerVars, callVars, detectorVars, glossary_df>>

\* what a validate_term call leaves its caller with
ValidateReturn(q, result) ==
    IF result.outcome = "raised"
    THEN [op |-> "validate_term", raised |-> TRUE]
    ELSE [op |-> "validate_term", raised |-> FALSE,
          fallback_tier |-> result.fallback_tier,
          confidence |-> result.confidence]

\* validate_term(term, domain, language, context)
ValidateTerm(q) ==
    /\ engRet' = ValidateReturn(q, validate_term(glossary_df, suggestion_pool, q))
    /\ UNCHANGED <<trackerVars, checkerVars, callVars, detectorVars, glossary_df, suggestion_pool>>

UpdateGlossary == \E new_df \in Frames : UpdateGlossaryDataframe(new_df)

AddSuggestions ==
    \E suggestions \in SeqsUpTo(Suggestions, MaxPool) :
        suggestions # <<>> /\ AddToSuggestionPool(suggestions)

Validate == \E q \in Queries : ValidateTerm(q)

InitEngine ==
    /\ supabase = FALSE
    /\ cacheSvc = FALSE
    /\ store = <<>>
    /\ cache = [k \in CacheKeys |-> NoEntry]
    /\ now = 0
    /\ tasks = IdleTasks
    /\ ret = NoRet
    /\ NewChecker
    /\ NewEngine
    /\ NoCall
    /\ NewDetector

NextEngine == UpdateGlossary \/ AddSuggestions \/ Validate

SpecEngine == InitEngine /\ [][NextEngine]_vars


----------------------------------------------------------------------------
(* EnhancedLexiQEngine: properties *)

\* a row and a query agree on a column, compared as the lookup compares them;
\* a missing cell agrees with nothing
SameTerm(row, q) == row.term # NaN /\ Lower(row.term) = Strip(Lower(q.term))

SameDomain(row, q) == row.domain # NaN /\ Lower(row.domain) = Lower(q.domain)

SameLanguage(row, q) == row.language # NaN /\ Lower(row.language) = Lower(q.language)

ExactRowIn(df, q) ==
    \E i \in 1..Len(df) :
        SameTerm(df[i], q) /\ SameDomain(df[i], q) /\ SameLanguage(df[i], q)

PartialRow(row, q) == SameTerm(row, q) /\ (SameDomain(row, q) \/ SameLanguage(row, q))

PartialRowIn(df, q) == \E i \in 1..Len(df) : PartialRow(df[i], q)

\* the first row of the frame that agrees on the term and on one of the two
FirstPartialRow(df, q) ==
    df[CHOOSE i \in 1..Len(df) :
           /\ PartialRow(df[i], q)
           /\ \A j \in 1..(i - 1) : ~PartialRow(df[j], q)]

\* the tier a query is expected to be answered by
LowestTier(df, q) ==
    IF PartialRowIn(df, q) THEN "tier_1_dataframe"
    ELSE IF _infer_semantic_type(q.term, q.domain, q.context).confidence >= 6000
    THEN "tier_2_semantic"
    ELSE "tier_3_auto_recommend"

OneResultFromLowestTier(df, q, r) ==
    /\ r.outcome = "result"
    /\ r.confidence \in 0..10000
    /\ r.fallback_tier = LowestTier(df, q)

\* C9: every validate_term call ends with one result, its confidence in
\* [0, 1] and its tier the lowest that produced a result: tier 1 iff the
\* repository lookup matched, tier 2 iff it did not and the tier-2 confidence
\* is at least 0.6, tier 3 otherwise
C9_OneResultFromLowestTier ==
    \A q \in Queries :
        OneResultFromLowestTier(glossary_df, q,
            validate_term(glossary_df, suggestion_pool, q))

ExactResult(r) ==
    /\ r.outcome = "result"
    /\ r.fallback_tier = "tier_1_dataframe"
    /\ r.is_valid
    /\ r.confidence = 10000
    /\ r.domain_match
    /\ r.language_match

PartialResult(r, row, q) ==
    /\ r.outcome = "result"
    /\ r.fallback_tier = "tier_1_dataframe"
    /\ r.confidence = 8000
    /\ r.domain_match = SameDomain(row, q)
    /\ r.language_match = SameLanguage(row, q)
    /\ r.domain_match # r.language_match

LaterTierResult(r) ==
    /\ r.outcome = "result"
    /\ r.fallback_tier # "tier_1_dataframe"

Tier1Contract(df, q, r) ==
    IF ExactRowIn(df, q) THEN ExactResult(r)
    ELSE IF PartialRowIn(df, q) THEN PartialResult(r, FirstPartialRow(df, q), q)
    ELSE LaterTierResult(r)

\* C10: with a row that has the query's term, domain and language the result
\* is valid with confidence 1.0 and both matches true; with no such row but
\* one that has the term and the domain or the language the result has
\* confidence 0.8 and exactly one of the two matches true, telling which
\* matched for the chosen row; with neither, tier 1 returns nothing and a
\* later tier answers
C10_Tier1ExactThenPartialThenNothing ==
    \A q \in Queries :
        Tier1Contract(glossary_df, q, validate_term(glossary_df, suggestion_pool, q))


\* the number of the keywords that occur in the context, letter case ignored
KeywordsFound(keywords, context) ==
    Cardinality({i \in 1..Len(keywords) :
                     Contains(Lower(context), Lower(keywords[i]))})

\* 0.8 when the term matches a pattern of some semantic type, 0.5 otherwise
BaseConfidence(term) ==
    IF \E i \in 1..Len(semantic_patterns) :
           \E j \in 1..Len(semantic_patterns[i].patterns) :
               PatternMatches(semantic_patterns[i].patterns[j], Lower(term))
    THEN 8000 ELSE 5000

InferenceAsClaimed(inference, base, k, n) ==
    /\ inference.domain_relevance = Min((2 * k * 10000) \div Max(n, 1), 10000)
    /\ inference.confidence = Min(base + 1000 * k, 10000)

Tier2AsClaimed(inference, r) ==
    IF inference.confidence < 6000 THEN r = NoResult
    ELSE /\ r.outcome = "result"
         /\ r.fallback_tier = "tier_2_semantic"
         /\ r.confidence = inference.confidence
         /\ r.is_valid = (inference.domain_relevance >= 5000)
         /\ r.language_match

\* when tier 1 returns nothing, validate_term answers with the tier-2 result,
\* or from tier 3 when tier 2 returns nothing
FallsThroughToTier3(t1, t2, r) ==
    t1 = NoResult =>
        IF t2 = NoResult
        THEN r.outcome = "result" /\ r.fallback_tier = "tier_3_auto_recommend"
        ELSE r = t2

Tier2Contract(q, keywords) ==
    /\ InferenceAsClaimed(_infer_semantic_type(q.term, q.domain, q.context),
           BaseConfidence(q.term), KeywordsFound(keywords, q.context), Len(keywords))
    /\ Tier2AsClaimed(_infer_semantic_type(q.term, q.domain, q.context),
           _tier2_semantic_inference(q.term, q.domain, q.language, q.context))

\* C11: with k the number of keywords of the domain found in the context and
\* n the size of the domain's keyword set, domain_relevance is
\* min(2k / max(n, 1), 1) and confidence is min(base + 0.1 k, 1), base being
\* 0.8 when the term matches a pattern and 0.5 otherwise; below 0.6 tier 2
\* returns nothing, otherwise it returns that confidence with
\* is_valid = (domain_relevance >= 0.5) and language_match true
C11_Tier2RelevanceAndConfidence ==
    \A q \in Queries :
        /\ Tier2Contract(q, KeywordsOf(domain_keywords, Lower(q.domain)))
        /\ FallsThroughToTier3(
               _tier1_dataframe_lookup(glossary_df, q.term, q.domain, q.language),
               _tier2_semantic_inference(q.term, q.domain, q.language, q.context),
               validate_term(glossary_df, suggestion_pool, q))


\* the records of the pool with the query's domain and language, or with its
\* language when there is none with both
Candidates(pool, q) ==
    IF \E i \in 1..Len(pool) : /\ Lower(pool[i].domain) = Lower(q.domain)
                               /\ Lower(pool[i].language) = Lower(q.language)
    THEN SelectSeq(pool, LAMBDA s : /\ Lower(s.domain) = Lower(q.domain)
                                    /\ Lower(s.language) = Lower(q.language))
    ELSE SelectSeq(pool, LAMBDA s : Lower(s.language) = Lower(q.language))

\* shared words over the size of the larger word set, in 1/10000
Score(words, others) ==
    IF words \cap others = {} THEN 0
    ELSE (Cardinality(words \cap others) * 10000)
         \div Max(Cardinality(words), Cardinality(others))

Scores(candidates, words) ==
    [i \in 1..Len(candidates) |-> Score(words, WordsOf(candidates[i].term))]

BestScore(scores) ==
    CHOOSE m \in Range(scores) \cup {0} : \A x \in Range(scores) : m >= x

FirstWithScore(scores, m) ==
    CHOOSE i \in 1..Len(scores) :
        scores[i] = m /\ \A j \in 1..(i - 1) : scores[j] # m

Recommends(r, candidates, scores, best) ==
    IF best >= 3000
    THEN /\ r.confidence = best
         /\ r.recommended_term = candidates[FirstWithScore(scores, best)].term
    ELSE /\ r.confidence = 0
         /\ r.recommended_term = None

Tier3AsClaimed(r, candidates, scores) ==
    /\ r.outcome = "result"
    /\ r.fallback_tier = "tier_3_auto_recommend"
    /\ ~r.is_valid
    /\ Recommends(r, candidates, scores, BestScore(scores))

Tier3Contract(r, candidates, q) ==
    Tier3AsClaimed(r, candidates, Scores(candidates, WordsOf(q.term)))

\* the keywords that occur in the context when letter case is ignored, in
\* the order of the keyword set
KeywordsInAnyCase(keywords, context) ==
    SelectSeq(keywords, LAMBDA keyword : Contains(Lower(context), Lower(keyword)))

CountsEveryKeyword(inference, keywords, context) ==
    /\ inference.context_keywords = KeywordsInAnyCase(keywords, context)
    /\ inference.domain_relevance =
           Min((2 * Len(KeywordsInAnyCase(keywords, context)) * 10000)
                   \div Max(Len(keywords), 1), 10000)

\* C26: tier-2 keyword matching is case-insensitive: whenever tier 1 finds
\* nothing and the inference runs, context_keywords holds every keyword of the
\* domain's set that occurs in the context in any letter case, 'API' and 'ROI'
\* included, and domain_relevance counts them all
C26_KeywordsMatchedInAnyCase ==
    \A q \in Queries :
        _tier1_dataframe_lookup(glossary_df, q.term, q.domain, q.language) = NoResult =>
            CountsEveryKeyword(_infer_semantic_type(q.term, q.domain, q.context),
                               KeywordsOf(domain_keywords, Lower(q.domain)), q.context)

\* C12: tier 3 scores the pool's records with the query's domain and language,
\* or with its language when there is none with both, by shared words over
\* the larger word set; its result is never valid, and it recommends the best
\* candidate with its score as confidence iff that score is at least 0.3,
\* otherwise confidence is 0.0 and nothing is recommended
C12_Tier3RecommendsBestCandidate ==
    \A q \in Queries :
        Tier3Contract(
            _tier3_auto_recommend(suggestion_pool, q.term, q.domain, q.language, q.context),
            Candidates(suggestion_pool, q), q)

\* C12: a call answered by tier 3 with a recommendation taken from a pool
\* that has no record of the query's domain, and one below the threshold
C12_Witness ==
    /\ engRet = [op |-> "validate_term", raised |-> FALSE,
                 fallback_tier |-> "tier_3_auto_recommend", confidence |-> 5000]
    /\ \E q \in Queries :
           /\ Candidates(suggestion_pool, q) # <<>>
           /\ \A i \in 1..Len(suggestion_pool) :
                  Lower(suggestion_pool[i].domain) # Lower(q.domain)
           /\ BestScore(Scores(Candidates(suggestion_pool, q), WordsOf(q.term))) >= 3000
    /\ \E q \in Queries :
           BestScore(Scores(Candidates(suggestion_pool, q), WordsOf(q.term))) \in 1..2999


Rejects(r) == r.outcome = "result" /\ ~r.is_valid

\* C13: validate_term with an empty term or an empty domain, whatever the
\* repository, the pool and the context, does not raise and returns a result
\* with is_valid = false
C13_EmptyTermOrDomainRejected ==
    \A q \in Queries :
        (q.term = <<>> \/ q.domain = <<>>) =>
            Rejects(validate_term(glossary_df, suggestion_pool, q))


----------------------------------------------------------------------------
(* ConsistencyCheckService._calculate_statistics on issue lists of any size *)

\* the services as constructed, no call made
Constructed ==
    /\ supabase = FALSE
    /\ cacheSvc = FALSE
    /\ store = <<>>
    /\ cache = [k \in CacheKeys |-> NoEntry]
    /\ now = 0
    /\ tasks = IdleTasks
    /\ ret = NoRet
    /\ NewChecker
    /\ NewEngine
    /\ NewDetector

MaxOfSeverity == 10    \* critical issues in a list

MaxOfOthers == 2       \* issues of each other severity in a list

RECURSIVE Repeat(_, _)
Repeat(x, n) == IF n = 0 THEN <<>> ELSE <<x>> \o Repeat(x, n - 1)

\* an issue of a severity, as a custom rule reports it
IssueOfSeverity(severity) ==
    Issue("custom_rule", severity, <<>>, 0, 0, <<>>, <<>>, 100, FALSE, None, None)

\* issue lists with c critical, m major, n minor and i info issues, the
\* severities interleaved in two orders
IssueLists ==
    UNION { { Repeat(IssueOfSeverity("critical"), c) \o Repeat(IssueOfSeverity("major"), m)
                \o Repeat(IssueOfSeverity("minor"), n) \o Repeat(IssueOfSeverity("info"), i),
              Repeat(IssueOfSeverity("info"), i) \o Repeat(IssueOfSeverity("minor"), n)
                \o Repeat(IssueOfSeverity("major"), m) \o Repeat(IssueOfSeverity("critical"), c) } :
            c \in 0..MaxOfSeverity, m \in 0..MaxOfOthers,
            n \in 0..MaxOfOthers, i \in 0..MaxOfOthers }

InitStatistics ==
    /\ Constructed
    /\ fnCall \in [fn : {"_calculate_statistics"}, issues : IssueLists]
    /\ fnRet = [fn |-> "none"]

\* _calculate_statistics(issues)
CalculateStatistics ==
    /\ fnCall.fn = "_calculate_statistics"
    /\ fnRet = [fn |-> "none"]
    /\ fnRet' = [fn |-> "_calculate_statistics",
                 value |-> _calculate_statistics(fnCall.issues)]
    /\ UNCHANGED <<trackerVars, checkerVars, engineVars, detectorVars, fnCall>>

NextStatistics == CalculateStatistics

SpecStatistics == InitStatistics /\ [][NextStatistics]_vars

NumberOf(issues, severity) ==
    Cardinality({k \in 1..Len(issues) : issues[k].severity = severity})

ScoreAsClaimed(s, c, m, n, i) ==
    /\ s.quality_score = Max(0, 100 - 10 * c - 5 * m - 2 * n - i)
    /\ s.quality_score \in 0..100
    /\ s.critical_issues = c /\ s.major_issues = m
    /\ s.minor_issues = n /\ s.info_issues = i

StatisticsAsClaimed(s, issues) ==
    /\ ScoreAsClaimed(s, NumberOf(issues, "critical"), NumberOf(issues, "major"),
                      NumberOf(issues, "minor"), NumberOf(issues, "info"))
    /\ issues = <<>> => s.quality_score = 100
    /\ s.total_issues = Len(issues)
    /\ s.critical_issues + s.major_issues + s.minor_issues + s.info_issues
           = s.total_issues

\* C14: for an issue list with c critical, m major, n minor and i info
\* issues the quality score is max(0, 100 - 10c - 5m - 2n - i), within
\* [0, 100], 100 for the empty list, and the four counts add up to
\* total_issues
C14_QualityScoreFormula ==
    fnRet.fn = "_calculate_statistics" => StatisticsAsClaimed(fnRet.value, fnCall.issues)

\* C14: statistics computed for a list whose weights exceed 100
C14_Witness ==
    /\ fnRet.fn = "_calculate_statistics"
    /\ fnRet.value.quality_score = 0
    /\ 10 * fnRet.value.critical_issues + 5 * fnRet.value.major_issues
         + 2 * fnRet.value.minor_issues + fnRet.value.info_issues > 100

-----------------------------------------------------------------------------
(* HotMatchService.generate_base_term_hash on base terms and domains in     *)
(* any letter case                                                          *)

MaxHashLen == 2

HashChars == {"a", "A", "b"}

\* base terms and domains of at most MaxHashLen characters
HashStrings ==
    UNION { [1..n -> HashChars] : n \in 0..MaxHashLen }

InitHash ==
    /\ Constructed
    /\ fnCall \in [fn : {"generate_base_term_hash"},
                   base_term : HashStrings, domain : HashStrings]
    /\ fnRet = [fn |-> "none"]

\* generate_base_term_hash(base_term, domain)
GenerateBaseTermHash ==
    /\ fnCall.fn = "generate_base_term_hash"
    /\ fnRet = [fn |-> "none"]
    /\ fnRet' = [fn |-> "generate_base_term_hash",
                 value |-> generate_base_term_hash(fnCall.base_term, fnCall.domain)]
    /\ UNCHANGED <<trackerVars, checkerVars, engineVars, detectorVars, fnCall>>

NextHash == GenerateBaseTermHash

SpecHash == InitHash /\ [][NextHash]_vars

SameGroupIgnoringCase(b, d, b2, d2) ==
    Lower(b) = Lower(b2) /\ Lower(d) = Lower(d2)

\* C20: generate_base_term_hash is deterministic and case-insensitive over
\* both inputs: base terms equal in lowercase and domains equal in lowercase
\* give the same id, and a repeated call gives the id of the first call
C20_HashIgnoresCase ==
    fnRet.fn = "generate_base_term_hash" =>
        /\ generate_base_term_hash(fnCall.base_term, fnCall.domain) = fnRet.value
        /\ \A b2 \in HashStrings, d2 \in HashStrings :
               SameGroupIgnoringCase(fnCall.base_term, fnCall.domain, b2, d2) =>
                   generate_base_term_hash(b2, d2) = fnRet.value

\* C20 witness: an id was returned for a base term and a domain that both
\* contain a capital letter, and a differently cased pair exists
C20_Witness ==
    /\ fnRet.fn = "generate_base_term_hash"
    /\ fnCall.base_term # Lower(fnCall.base_term)
    /\ fnCall.domain # Lower(fnCall.domain)
    /\ \E b2 \in HashStrings, d2 \in HashStrings :
           /\ <<b2, d2>> # <<fnCall.base_term, fnCall.domain>>
           /\ SameGroupIgnoringCase(fnCall.base_term, fnCall.domain, b2, d2)


----------------------------------------------------------------------------
(* HotMatchDetector: detection *)

\* self.interchangeable_patterns.get(domain, {})
RECURSIVE PatternsOf(_, _)
PatternsOf(tables, domain) ==
    IF tables = <<>> THEN <<>>
    ELSE IF Head(tables).domain = domain THEN Head(tables).groups
    ELSE PatternsOf(Tail(tables), domain)

\* domain in self.interchangeable_patterns
HasPatterns(tables, domain) == \E i \in 1..Len(tables) : tables[i].domain = domain

\* str.find: the 0-based position of the first occurrence, -1 when there is none
RECURSIVE FindFrom(_, _, _)
FindFrom(hay, needle, i) ==
    IF i + Len(needle) - 1 > Len(hay) THEN -1
    ELSE IF SubSeq(hay, i, i + Len(needle) - 1) = needle THEN i - 1
    ELSE FindFrom(hay, needle, i + 1)

Ellipsis == <<".", ".", ".">>

\* full_text[start:end] with an ellipsis on each side that was cut
ContextWindow(full_text, start, end) ==
    (IF start > 0 THEN Ellipsis ELSE <<>>)
        \o Slice(full_text, start + 1, end)
        \o (IF end < Len(full_text) THEN Ellipsis ELSE <<>>)

ContextAt(full_text, term, window, pos) ==
    IF pos = -1 THEN Prefix(full_text, 100)
    ELSE ContextWindow(full_text, Max(0, pos - window),
                       Min(Len(full_text), pos + Len(term) + window))

_extract_context(full_text, term, window) ==
    ContextAt(full_text, term, window, FindFrom(Lower(full_text), Lower(term), 1))

\* term_text in [t.lower() for t in [base_term] + alternatives]
InAllTerms(term_text, group) ==
    \/ term_text = Lower(group.base_term)
    \/ \E i \in 1..Len(group.alternatives) : term_text = Lower(group.alternatives[i])

\* [alt for alt in alternatives if alt.lower() != term_text]
FilteredAlternatives(term_text, group) ==
    SelectSeq(group.alternatives, LAMBDA alt : Lower(alt) # term_text)

\* the InterchangeableMatch of a term and the group it was found in;
\* confidence in 1/10000
InterchangeableMatch(term_text, group, domain, context) ==
    [ base_term |-> group.base_term,
      detected_term |-> term_text,
      alternatives |-> FilteredAlternatives(term_text, group),
      context |-> _extract_context(context, term_text, 50),
      confidence |-> IF term_text = Lower(group.base_term) THEN 9000 ELSE 8000,
      domain |-> domain ]

\* the loop over patterns.items() for one term: the first group the term is
\* in ends the loop, with a match if it has other alternatives
RECURSIVE TermMatchesIn(_, _, _, _)
TermMatchesIn(term_text, groups, domain, context) ==
    IF groups = <<>> THEN <<>>
    ELSE IF InAllTerms(term_text, Head(groups))
    THEN IF FilteredAlternatives(term_text, Head(groups)) # <<>>
         THEN <<InterchangeableMatch(term_text, Head(groups), domain, context)>>
         ELSE <<>>
    ELSE TermMatchesIn(term_text, Tail(groups), domain, context)

\* one term of analyzed_terms: skipped when its text is empty
CheckTerm(term_text, groups, domain, context) ==
    IF term_text = <<>> THEN <<>>
    ELSE TermMatchesIn(term_text, groups, domain, context)

\* the loop over analyzed_terms (each the 'text' of a term)
RECURSIVE CheckTerms(_, _, _, _)
CheckTerms(analyzed_terms, groups, domain, context) ==
    IF analyzed_terms = <<>> THEN <<>>
    ELSE CheckTerm(Strip(Lower(Head(analyzed_terms))), groups, domain, context)
         \o CheckTerms(Tail(analyzed_terms), groups, domain, context)

_check_domain_patterns(tables, analyzed_terms, domain, context) ==
    CheckTerms(analyzed_terms, PatternsOf(tables, domain), domain, context)

General == <<"g", "e", "n", "e", "r", "a", "l">>

\* detect_interchangeable_terms once the domain is normalised
DetectIn(tables, analyzed_terms, domain_lower, context) ==
    (IF HasPatterns(tables, domain_lower)
     THEN _check_domain_patterns(tables, analyzed_terms, domain_lower, context)
     ELSE <<>>)
    \o (IF domain_lower # General
        THEN _check_domain_patterns(tables, analyzed_terms, General, context)
        ELSE <<>>)

detect_interchangeable_terms(tables, analyzed_terms, domain, context) ==
    DetectIn(tables, analyzed_terms, Lower(domain), context)

\* self.interchangeable_patterns[domain][base_term] = alternatives on a dict
\* of groups: an existing key keeps its place, a new key goes last
SetGroup(groups, base_term, alternatives) ==
    IF \E i \in 1..Len(groups) : groups[i].base_term = base_term
    THEN [i \in 1..Len(groups) |->
             IF groups[i].base_term = base_term
             THEN [base_term |-> base_term, alternatives |-> alternatives]
             ELSE groups[i]]
    ELSE Append(groups, [base_term |-> base_term, alternatives |-> alternatives])

\* add_custom_pattern: the domain is the key as given
add_custom_pattern(tables, domain, base_term, alternatives) ==
    IF HasPatterns(tables, domain)
    THEN [i \in 1..Len(tables) |->
             IF tables[i].domain = domain
             THEN [domain |-> domain,
                   groups |-> SetGroup(tables[i].groups, base_term, alternatives)]
             ELSE tables[i]]
    ELSE Append(tables, [domain |-> domain,
                         groups |-> SetGroup(<<>>, base_term, alternatives)])

get_patterns_for_domain(tables, domain) == PatternsOf(tables, Lower(domain))


----------------------------------------------------------------------------
(* HotMatchDetector: calls *)

MaxTerms == 2            \* analyzed terms in a call

MaxCustomPatterns == 2   \* groups added at run time

\* the 'text' of the analyzed terms
TermTexts ==
    { <<" ","I","m","p","l","e","m","e","n","t","a","t","i","o","n"," ">>, <<"a","u","t","h","e","n","t","i","c","a","t","i","o","n">>,
      <<"f","o","o">>, <<"b","a","z">>, <<"u","s","e">>, <<>> }

DetectDomains == { <<"T","e","c","h","n","o","l","o","g","y">>, <<"T","e","c","h">>, <<"G","E","N","E","R","A","L">> }

DetectContexts == { <<"t","h","e"," ","i","m","p","l","e","m","e","n","t","a","t","i","o","n"," ","o","k">> }

\* the arguments of add_custom_pattern
CustomDomains == { <<"t","e","c","h","n","o","l","o","g","y">>, <<"T","e","c","h">> }

CustomBaseTerms == { <<"f","o","o">>, <<"b","a","r">> }

CustomAlternatives == { <<>>, << <<"f","o","o">>, <<"b","a","z">> >> }

RECURSIVE NumGroups(_)
NumGroups(tables) ==
    IF tables = <<>> THEN 0 ELSE Len(Head(tables).groups) + NumGroups(Tail(tables))

\* add_custom_pattern(domain, base_term, alternatives)
AddCustomPattern(domain, base_term, alternatives) ==
    \E tables \in {add_custom_pattern(interchangeable_patterns, domain, base_term, alternatives)} :
        /\ NumGroups(tables) <= NumGroups(InitialPatterns) + MaxCustomPatterns
        /\ interchangeable_patterns' = tables
        /\ detRet' = [op |-> "add_custom_pattern"]
        /\ UNCHANGED <<trackerVars, checkerVars, engineVars, callVars>>

\* get_patterns_for_domain(domain)
GetPatternsForDomain(domain) ==
    /\ detRet' = [op |-> "get_patterns_for_domain",
                  patterns |-> get_patterns_for_domain(interchangeable_patterns, domain)]
    /\ UNCHANGED <<trackerVars, checkerVars, engineVars, callVars, interchangeable_patterns>>

\* detect_interchangeable_terms(analyzed_terms, domain, context)
DetectInterchangeableTerms(analyzed_terms, domain, context) ==
    /\ detRet' = [op |-> "detect_interchangeable_terms",
                  matches |-> detect_interchangeable_terms(interchangeable_patterns,
                                  analyzed_terms, domain, context)]
    /\ UNCHANGED <<trackerVars, checkerVars, engineVars, callVars, interchangeable_patterns>>

AddPattern ==
    \E domain \in CustomDomains, base_term \in CustomBaseTerms :
        \E alternatives \in CustomAlternatives :
            AddCustomPattern(domain, base_term, alternatives)

GetPatterns == \E domain \in DetectDomains : GetPatternsForDomain(domain)

Detect ==
    \E analyzed_terms \in SeqsUpTo(TermTexts, MaxTerms) :
        \E domain \in DetectDomains, context \in DetectContexts :
            DetectInterchangeableTerms(analyzed_terms, domain, context)

InitDetector == Constructed /\ NoCall

NextDetector == AddPattern \/ GetPatterns \/ Detect

SpecDetector == InitDetector /\ [][NextDetector]_vars


----------------------------------------------------------------------------
(* HotMatchDetector: properties *)

\* the term, lowercased and trimmed
Normalised(text) == Strip(Lower(text))

\* the term equals the base term or an alternative of the group, letter case
\* ignored
TermInGroup(term, group) ==
    term \in {Lower(group.base_term)}
             \cup {Lower(group.alternatives[i]) : i \in 1..Len(group.alternatives)}

\* the alternatives of the group without the term
OtherAlternatives(term, group) ==
    SelectSeq(group.alternatives, LAMBDA alt : Lower(alt) # term)

MatchOfGroup(m, term, group) ==
    /\ m.base_term = group.base_term
    /\ TermInGroup(term, group)
    /\ m.alternatives = OtherAlternatives(term, group)
    /\ m.alternatives # <<>>
    /\ m.confidence = IF term = Lower(group.base_term) THEN 9000 ELSE 8000

MatchIffGroup(term, groups, matches) ==
    /\ matches # <<>> <=>
           \E i \in 1..Len(groups) :
               /\ TermInGroup(term, groups[i])
               /\ OtherAlternatives(term, groups[i]) # <<>>
    /\ \A k \in 1..Len(matches) :
           \E i \in 1..Len(groups) : MatchOfGroup(matches[k], term, groups[i])

\* C18: for each term and each table, a match is emitted iff the term,
\* lowercased and trimmed, equals the base term or an alternative of a group
\* of the table that has an alternative other than the term; the match has
\* confidence 0.9 when the term is the group's base term and 0.8 otherwise,
\* and its alternatives are the group's without the term
C18_MatchIffGroupWithOtherAlternative ==
    \A text \in TermTexts, i \in 1..Len(interchangeable_patterns), context \in DetectContexts :
        Normalised(text) # <<>> =>
            MatchIffGroup(Normalised(text), interchangeable_patterns[i].groups,
                _check_domain_patterns(interchangeable_patterns, <<text>>,
                    interchangeable_patterns[i].domain, context))

\* what a match says of its term and group
MatchKeys(matches) ==
    [k \in 1..Len(matches) |->
        <<matches[k].base_term, matches[k].detected_term, matches[k].alternatives>>]

\* the keys of the tables that are the domain, letter case ignored
TablesOfDomain(tables, domain) ==
    SelectSeq([i \in 1..Len(tables) |-> tables[i].domain],
              LAMBDA key : Lower(key) = Lower(domain))

RECURSIVE CheckedAgainst(_, _, _, _)
CheckedAgainst(tables, keys, analyzed_terms, context) ==
    IF keys = <<>> THEN <<>>
    ELSE _check_domain_patterns(tables, analyzed_terms, Head(keys), context)
         \o CheckedAgainst(tables, Tail(keys), analyzed_terms, context)

\* the matches of the domain's table, then those of the general table unless
\* it was the domain's
DomainThenGeneral(tables, analyzed_terms, domain, context) ==
    CheckedAgainst(tables, TablesOfDomain(tables, domain), analyzed_terms, context)
    \o (IF Lower(domain) # General
        THEN _check_domain_patterns(tables, analyzed_terms, General, context)
        ELSE <<>>)

\* C19: detect_interchangeable_terms checks the terms against the table of
\* the given domain, letter case ignored, when there is one, and then against
\* the general table, which is checked once when it is the given domain; the
\* matches of the domain's table come first
C19_DomainTableThenGeneralOnce ==
    \A analyzed_terms \in SeqsUpTo(TermTexts, MaxTerms) :
        \A domain \in DetectDomains, context \in DetectContexts :
            MatchKeys(detect_interchangeable_terms(interchangeable_patterns,
                          analyzed_terms, domain, context))
                = MatchKeys(DomainThenGeneral(interchangeable_patterns,
                                analyzed_terms, domain, context))

\* the table returned for the domain holds the group
HoldsGroup(groups, base_term, alternatives) ==
    \E i \in 1..Len(groups) :
        groups[i] = [base_term |-> base_term, alternatives |-> alternatives]

EmitsMatchOf(matches, base_term) ==
    \E k \in 1..Len(matches) : matches[k].base_term = base_term

\* tables being the tables after add_custom_pattern(domain, base_term,
\* alternatives): the pattern is returned for the domain and matched for the
\* group's terms that have an alternative other than themselves
UsedAfterwards(tables, domain, base_term, alternatives) ==
    /\ HoldsGroup(get_patterns_for_domain(tables, domain), base_term, alternatives)
    /\ \A term \in {base_term} \cup Range(alternatives), context \in DetectContexts :
          OtherAlternatives(Lower(term), [base_term |-> base_term,
                                          alternatives |-> alternatives]) # <<>>
              => EmitsMatchOf(detect_interchangeable_terms(tables, <<term>>, domain, context),
                              base_term)

\* C30: a pattern added at run time is used afterwards: for every domain
\* string, capital letters or not, after add_custom_pattern(d, base_term,
\* alternatives) get_patterns_for_domain(d) holds base_term with those
\* alternatives, and detect_interchangeable_terms with domain d and a term
\* equal to base_term or to one of the alternatives emits a match for the group
C30_AddedPatternIsUsed ==
    \A domain \in CustomDomains, base_term \in CustomBaseTerms :
        \A alternatives \in CustomAlternatives :
            UsedAfterwards(
                add_custom_pattern(interchangeable_patterns, domain, base_term, alternatives),
                domain, base_term, alternatives)

-----------------------------------------------------------------------------
(* ConsistencyCheckService: each check called on its own *)

\* sources and targets of the tag and placeholder check: tags, placeholders of
\* each form, one inside the other, and the delimiters with nothing between them
TagTexts ==
    { <<"<","b",">","x","<","/","b",">"," ","{","0","}">>,
      <<"x"," ","{","0","}">>,
      <<"<","b",">","x","<","/","b",">">>,
      <<"<","{","0","}",">">>,
      <<"%","s"," ","$","{","v","}"," ","<",">">>,
      <<"a"," ","<"," ","b"," ",">">>,
      <<"%","d"," ","{","}"," ","<","i",">">>,
      <<>> }

\* sources and targets of the number check: integers, decimals with either
\* separator, digits inside words, a digit group followed by a full stop
NumberTexts ==
    { <<"$","1","0","0"," ","a","n","d"," ","5","0",".">>,
      <<"$","1","0","0",".">>,
      <<"1",",","0","0","0",".","5","0"," ","x">>,
      <<"3",".","1","4">>,
      <<"3",",","1","4">>,
      <<"a","1","b","2","2">>,
      <<"1","2","."," ","5">>,
      <<"n","o">> }

TagCalls ==
    [fn : {"_check_tags_placeholders"}, source : TagTexts, target : TagTexts]

NumberCalls ==
    [fn : {"_check_number_format"}, source : NumberTexts, target : NumberTexts]

\* the call returns issues, each with a fresh identifier
ReturnIssues(fn, issues) ==
    /\ fnRet = [fn |-> "none"]
    /\ fnRet' = [fn |-> fn, value |-> WithIds(issues, nextId)]
    /\ nextId' = nextId + Len(issues)
    /\ UNCHANGED <<trackerVars, ccCache, ccRet, engineVars, detectorVars, fnCall>>

\* _check_tags_placeholders(source, target)
CheckTagsPlaceholders ==
    /\ fnCall.fn = "_check_tags_placeholders"
    /\ ReturnIssues(fnCall.fn, _check_tags_placeholders(fnCall.source, fnCall.target))

\* _check_number_format(source, target)
CheckNumberFormat ==
    /\ fnCall.fn = "_check_number_format"
    /\ ReturnIssues(fnCall.fn, _check_number_format(fnCall.source, fnCall.target))

\* targets of the custom rule check
RuleTargets ==
    { <<"a","b"," ","A","B"," ","a","b">>, <<"x","y">>, <<>> }

\* CustomRule: the types the check knows and one it does not, patterns that
\* match in either case, in one case or never and one that is no regular
\* expression, a replacement that is absent, empty or given
CustomRules ==
    { [id |-> <<"r","1">>, name |-> <<"n">>, type |-> t, pattern |-> p,
       replacement |-> r, severity |-> s, enabled |-> e] :
      t \in {"regex", "forbidden", "required", "style"},
      p \in { <<"a","b">>, <<"A","B">>, <<"(">> },
      r \in { None, <<>>, <<"c">> },
      s \in {"minor", "major"},
      e \in BOOLEAN }

\* the rules that come second in a list of two
SecondRules ==
    { [id |-> <<"r","2">>, name |-> <<"n">>, type |-> t, pattern |-> p,
       replacement |-> None, severity |-> "info", enabled |-> TRUE] :
      t \in {"regex", "required"}, p \in { <<"a","b">>, <<"(">> } }

RuleListsOfCheck ==
    { <<r>> : r \in CustomRules }
    \cup { <<r, s>> : r \in { c \in CustomRules : c.enabled /\ c.replacement = None
                                                 /\ c.severity = "minor" },
                      s \in SecondRules }

CustomRuleCalls ==
    [fn : {"_check_custom_rules"}, target : RuleTargets, custom_rules : RuleListsOfCheck]

\* _check_custom_rules(target, custom_rules): the issues, or re.error
CheckCustomRules ==
    /\ fnCall.fn = "_check_custom_rules"
    /\ IF CustomRulesRaise(fnCall.custom_rules)
       THEN /\ fnRet = [fn |-> "none"]
            /\ fnRet' = [fn |-> fnCall.fn, value |-> <<>>, raised |-> TRUE]
            /\ UNCHANGED <<trackerVars, checkerVars, engineVars, detectorVars, fnCall>>
       ELSE ReturnIssues(fnCall.fn, _check_custom_rules(fnCall.target, fnCall.custom_rules))


\* sources and targets of the glossary check
GlossarySources ==
    { <<"a","b"," ","A","b"," ","x","y">>, <<"x","y">>, <<"a","b"," ","a","b">> }

GlossaryTargets ==
    { <<"c","d"," ","C","D">>, <<"c","d">>, <<"z","z">>, <<"c","d","c","d">> }

\* GlossaryTerm: forms in either case, both flags
GlossaryTerms ==
    { [id |-> <<"g","1">>, source |-> s, target |-> t, case_sensitive |-> c,
       forbidden |-> f] :
      s \in { <<"a","b">>, <<"A","b">> }, t \in { <<"c","d">>, <<"C","D">> },
      c \in BOOLEAN, f \in BOOLEAN }

\* the term that comes second in a list of two
SecondTerm ==
    [id |-> <<"g","2">>, source |-> <<"x","y">>, target |-> <<"z","z">>,
     case_sensitive |-> TRUE, forbidden |-> FALSE]

GlossaryListsOfCheck ==
    { <<t>> : t \in GlossaryTerms }
    \cup { <<t, SecondTerm>> : t \in {g \in GlossaryTerms : g.case_sensitive} }

GlossaryCalls ==
    [fn : {"_check_glossary_compliance"}, source : GlossarySources,
     target : GlossaryTargets, glossary_terms : GlossaryListsOfCheck]

\* _check_glossary_compliance(source, target, glossary_terms)
CheckGlossaryCompliance ==
    /\ fnCall.fn = "_check_glossary_compliance"
    /\ ReturnIssues(fnCall.fn,
           _check_glossary_compliance(fnCall.source, fnCall.target, fnCall.glossary_terms))

\* targets of the capitalization check: a word repeated in one spelling and in
\* several, capitalized first or later
CapitalizationTexts ==
    { <<"P","y","t","h","o","n"," ","e","s","."," ","p","y","t","h","o","n"," ","e","s",".">>,
      <<"P","y","t","h","o","n"," ","P","y","t","h","o","n">>,
      <<"H","e","l","l","o"," ","H","E","L","L","O"," ","h","e","l","l","o">>,
      <<"p","y","t","h","o","n"," ","P","y","t","h","o","n">>,
      <<"A","b"," ","a","b"," ","A","b"," ","a","B">>,
      <<"A","b","c"," ","A","b","d">>,
      <<"x">>,
      <<>> }

CapitalizationCalls ==
    [fn : {"_check_capitalization"}, source : { <<"x">> }, target : CapitalizationTexts]

\* _check_capitalization(source, target)
CheckCapitalization ==
    /\ fnCall.fn = "_check_capitalization"
    /\ ReturnIssues(fnCall.fn, _check_capitalization(fnCall.source, fnCall.target))

CheckCalls == TagCalls \cup NumberCalls \cup CustomRuleCalls \cup GlossaryCalls
    \cup CapitalizationCalls

InitChecks ==
    /\ Constructed
    /\ fnCall \in CheckCalls
    /\ fnRet = [fn |-> "none"]

NextChecks ==
    \/ CheckTagsPlaceholders
    \/ CheckNumberFormat
    \/ CheckCustomRules
    \/ CheckGlossaryCompliance
    \/ CheckCapitalization

SpecChecks == InitChecks /\ [][NextChecks]_vars

\* the issues of a type and severity whose message begins with head
IssuesSaying(issues, type, severity, head) ==
    SelectSeq(issues, LAMBDA i : /\ i.type = type /\ i.severity = severity
                                 /\ i.message[1] = head)

NumberOfTags(text) == Len(FindIter([kind |-> "tag"], text, 1))

NumberOfPlaceholders(text) == Len(FindIter([kind |-> "placeholder"], text, 1))

OneIff(issues, differ) == Len(issues) = IF differ THEN 1 ELSE 0

TagsPlaceholdersAsClaimed(source, target, issues) ==
    LET tags == IssuesSaying(issues, "tag_placeholder", "critical", <<"Tag count mismatch">>)
        placeholders == IssuesSaying(issues, "tag_placeholder", "critical",
                                     <<"Placeholder count mismatch">>)
    IN  /\ OneIff(tags, NumberOfTags(source) # NumberOfTags(target))
        /\ OneIff(placeholders,
                  NumberOfPlaceholders(source) # NumberOfPlaceholders(target))
        /\ Len(issues) = Len(tags) + Len(placeholders)

\* C21: the tag and placeholder check counts the <...> tags and the
\* placeholders of source and target independently: exactly one critical
\* tag_placeholder issue for the tags iff the tag counts differ, exactly one
\* for the placeholders iff the placeholder counts differ, and no other issue
C21_TagsAndPlaceholdersCountedApart ==
    fnRet.fn = "_check_tags_placeholders" =>
        TagsPlaceholdersAsClaimed(fnCall.source, fnCall.target, fnRet.value)

\* C21 witness: the target lost a pair of tags and kept the placeholder, and
\* the check returned one issue, for the tags
C21_Witness ==
    /\ fnRet.fn = "_check_tags_placeholders"
    /\ fnCall.source = <<"<","b",">","x","<","/","b",">"," ","{","0","}">>
    /\ fnCall.target = <<"x"," ","{","0","}">>
    /\ Len(fnRet.value) = 1
    /\ fnRet.value[1].message = << <<"Tag count mismatch">>, <<"2">>, <<"0">> >>

NumberOfNumbers(text) == Len(FindIter([kind |-> "number"], text, 1))

NumbersAsClaimed(source, target, issues) ==
    /\ OneIff(issues, NumberOfNumbers(source) # NumberOfNumbers(target))
    /\ \A k \in 1..Len(issues) :
          issues[k].type = "number_format" /\ issues[k].severity = "major"

\* C22: the number check emits exactly one major number_format issue iff the
\* source and the target hold different numbers of numeric tokens, and none
\* when the counts are equal, whatever the values
C22_OneIssueIffNumberCountsDiffer ==
    fnRet.fn = "_check_number_format" =>
        NumbersAsClaimed(fnCall.source, fnCall.target, fnRet.value)

\* C22 witness: the numbers 100 and 50 against 100 alone gave one issue
C22_Witness ==
    /\ fnRet.fn = "_check_number_format"
    /\ fnCall.source = <<"$","1","0","0"," ","a","n","d"," ","5","0",".">>
    /\ fnCall.target = <<"$","1","0","0",".">>
    /\ Len(fnRet.value) = 1
    /\ fnRet.value[1].message = << <<"Number count mismatch">>, <<"2">>, <<"1">> >>

\* the matches of a rule's pattern in the target, as the rule's type matches
MatchesOfRule(target, rule) ==
    FindLiteral(rule.pattern, rule.type # "regex", target)

IssuesOfRule(issues, rule) == SelectSeq(issues, LAMBDA i : i.rule_id = rule.id)

AllOf(issues, severity, auto_fixable) ==
    \A k \in 1..Len(issues) :
        /\ issues[k].type = "custom_rule"
        /\ issues[k].severity = severity
        /\ issues[k].auto_fixable = auto_fixable

RuleAsClaimed(target, rule, issues) ==
    IF ~rule.enabled THEN issues = <<>>
    ELSE CASE rule.type = "regex" ->
                  /\ Len(issues) = Len(MatchesOfRule(target, rule))
                  /\ AllOf(issues, rule.severity, Truthy(rule.replacement))
           [] rule.type = "forbidden" ->
                  /\ Len(issues) = Len(MatchesOfRule(target, rule))
                  /\ AllOf(issues, "critical", FALSE)
           [] rule.type = "required" ->
                  /\ OneIff(issues, MatchesOfRule(target, rule) = <<>>)
                  /\ AllOf(issues, rule.severity, FALSE)
           [] OTHER -> issues = <<>>

\* the rules of the list whose pattern is a regular expression produce the
\* issues claimed, and every issue is the issue of a rule of the list
CustomRulesAsClaimed(target, custom_rules, issues) ==
    /\ \A k \in 1..Len(custom_rules) :
          RegexCompiles(custom_rules[k].pattern) =>
              RuleAsClaimed(target, custom_rules[k], IssuesOfRule(issues, custom_rules[k]))
    /\ \A k \in 1..Len(issues) :
          \E j \in 1..Len(custom_rules) : issues[k].rule_id = custom_rules[j].id

\* C23: a disabled rule produces no issue; an enabled regex rule one
\* custom_rule issue per match in the target at the rule's severity,
\* auto-fixable iff it has a replacement; an enabled forbidden rule one
\* critical issue per case-insensitive match whatever its severity; an enabled
\* required rule exactly one issue at its severity iff its pattern occurs
\* nowhere in the target; every issue carries the id of its rule
C23_CustomRuleIssues ==
    fnRet.fn = "_check_custom_rules" =>
        CustomRulesAsClaimed(fnCall.target, fnCall.custom_rules, fnRet.value)

\* the occurrences of a form in a text, case-sensitive exactly when the
\* term's flag is set
Occurrences(form, text, term) == Len(FindLiteral(form, ~term.case_sensitive, text))

\* the issues a result holds for a term: they name its source and target form
IssuesOfTerm(issues, term) ==
    SelectSeq(issues, LAMBDA i : /\ i.type = "glossary_compliance"
                                 /\ i.source_text = term.source
                                 /\ i.message[2] = term.target)

AllOfSeverity(issues, severity) ==
    \A k \in 1..Len(issues) : issues[k].severity = severity

\* what the term yields when its source form is in the source, or whenever
\* the check looks at the term
TermAsClaimed(source, target, term, issues) ==
    IF term.forbidden /\ Occurrences(term.target, target, term) > 0
    THEN /\ Len(issues) = Occurrences(term.target, target, term)
         /\ AllOfSeverity(issues, "critical")
    ELSE IF /\ ~term.forbidden
            /\ Occurrences(term.source, source, term) > Occurrences(term.target, target, term)
    THEN Len(issues) = 1 /\ AllOfSeverity(issues, "major")
    ELSE issues = <<>>

\* a term whose source form is not in the source yields nothing
TermAsAmended(source, target, term, issues) ==
    IF Occurrences(term.source, source, term) = 0 THEN issues = <<>>
    ELSE TermAsClaimed(source, target, term, issues)

EveryIssueOfATerm(issues, glossary_terms) ==
    Len(issues) = Len(IssuesOfTerm(issues, glossary_terms[1]))
                  + (IF Len(glossary_terms) > 1
                     THEN Len(IssuesOfTerm(issues, glossary_terms[2])) ELSE 0)

\* C24, as claimed: for each glossary term, if it is forbidden and the target
\* contains its target form, one critical issue per occurrence in the target;
\* otherwise, if it is not forbidden and its source form occurs more often in
\* the source than its target form in the target, exactly one major issue;
\* never both kinds; matching is case-sensitive exactly when the term's flag
\* is set
C24_GlossaryIssuesAsClaimed ==
    fnRet.fn = "_check_glossary_compliance" =>
        /\ \A k \in 1..Len(fnCall.glossary_terms) :
              TermAsClaimed(fnCall.source, fnCall.target, fnCall.glossary_terms[k],
                            IssuesOfTerm(fnRet.value, fnCall.glossary_terms[k]))
        /\ EveryIssueOfATerm(fnRet.value, fnCall.glossary_terms)

\* C24, amended: the same for each glossary term whose source form occurs in
\* the source; a term whose source form does not occur in the source yields
\* no issue, forbidden or not
C24_GlossaryIssuesWhenSourceHasTerm ==
    fnRet.fn = "_check_glossary_compliance" =>
        /\ \A k \in 1..Len(fnCall.glossary_terms) :
              TermAsAmended(fnCall.source, fnCall.target, fnCall.glossary_terms[k],
                            IssuesOfTerm(fnRet.value, fnCall.glossary_terms[k]))
        /\ EveryIssueOfATerm(fnRet.value, fnCall.glossary_terms)

\* C24 witness: a forbidden term, matched without regard to case, whose
\* source form is in the source and whose target form is twice in the target,
\* gave two critical issues
C24_Witness ==
    /\ fnRet.fn = "_check_glossary_compliance"
    /\ Len(fnCall.glossary_terms) = 1
    /\ fnCall.glossary_terms[1].forbidden
    /\ ~fnCall.glossary_terms[1].case_sensitive
    /\ fnCall.source = <<"a","b"," ","A","b"," ","x","y">>
    /\ fnCall.target = <<"c","d"," ","C","D">>
    /\ Len(fnRet.value) = 2
    /\ AllOfSeverity(fnRet.value, "critical")

\* the end of the run of word characters that starts at position p
RECURSIVE WordEnd(_, _)
WordEnd(text, p) ==
    IF p <= Len(text) /\ IsWordChar(text[p]) THEN WordEnd(text, p + 1) ELSE p

\* the words of the text from position p on, in order
RECURSIVE WordsFrom(_, _)
WordsFrom(text, p) ==
    IF p > Len(text) THEN <<>>
    ELSE IF IsWordChar(text[p])
         THEN << Slice(text, p, WordEnd(text, p) - 1) >> \o WordsFrom(text, WordEnd(text, p))
         ELSE WordsFrom(text, p + 1)

\* the spelling in which the text first has the word
FirstSpelling(words, w) ==
    words[CHOOSE k \in 1..Len(words) :
              /\ Lower(words[k]) = Lower(w)
              /\ \A j \in 1..(k - 1) : Lower(words[j]) # Lower(w)]

\* the occurrences that are not spelled as the word is first spelled
Deviations(words) ==
    SelectSeq(words, LAMBDA w : w # FirstSpelling(words, w))

DeviationIssue(issue, word, first) ==
    /\ issue.type = "capitalization"
    /\ issue.severity = "minor"
    /\ issue.auto_fixable
    /\ issue.target_text = word
    /\ issue.suggestions = << first >>

\* one issue for each deviating occurrence, whatever the order of the issues
CapitalizationAsClaimed(words, issues) ==
    /\ Len(issues) = Len(Deviations(words))
    /\ \A k \in 1..Len(Deviations(words)) :
          \E j \in 1..Len(issues) :
              DeviationIssue(issues[j], Deviations(words)[k],
                             FirstSpelling(words, Deviations(words)[k]))

\* C25: when the target holds the same word in two or more capitalization
\* spellings, the capitalization check emits one minor auto-fixable
\* capitalization issue for each occurrence that deviates from the first-seen
\* spelling, with the first-seen spelling as its suggestion
C25_OneIssuePerDeviatingSpelling ==
    fnRet.fn = "_check_capitalization" =>
        CapitalizationAsClaimed(WordsFrom(fnCall.target, 1), fnRet.value)

====
